---------------------------- MODULE Spec2Model ----------------------------
(***************************************************************************)
(* Model of the website schema analyzer: the analysis of a rendered page   *)
(* (WebsiteAnalyzer.analyzeWebsite and its helpers in                      *)
(* src/src/website-analyzer.ts) and the synthesis of the JSON-LD document  *)
(* (generateSchemaMarkup in src/src/index.ts).                             *)
(*                                                                         *)
(* A page is the sequence of its elements in document order.  An element   *)
(* is a record of its tag name, its attributes, the names of its valueless *)
(* attributes (flags), its inline script content (html) and its own text.  *)
(* An absent attribute is the empty string: every read in the code is      *)
(* `attr(..) || ..` or a selector that an empty value cannot match.        *)
(* Strings are TLA+ strings, read character by character with Len and      *)
(* SubSeq.                                                                 *)
(***************************************************************************)
EXTENDS Integers, Sequences, FiniteSets, TLC

VARIABLES pc, url, page, analysis, selection, markup, response, browser, calls,
          caller, server, analyzer

vars == <<pc, url, page, analysis, selection, markup, response, browser, calls,
          caller, server, analyzer>>

---------------------------------------------------------------------------
(* Bounds of the model *)

\* most elements on a page
MaxElems == 3

\* most img elements on a page given to the synthesis
MaxImages == 2

\* most entries of nestedSchemas
MaxNested == 2

\* the most calls of initialize, and of close, in one run
MaxLifecycleCalls == 2

---------------------------------------------------------------------------
(* Strings *)

\* the value of a JavaScript `undefined` string field
Undefined == "<undefined>"

CharAt(s, i) == SubSeq(s, i, i)

\* String.prototype.startsWith
StartsWith(s, prefix) ==
    Len(prefix) <= Len(s) /\ SubSeq(s, 1, Len(prefix)) = prefix

\* String.prototype.includes, and the CSS attribute selector [attr*="sub"]
Includes(s, sub) ==
    \E i \in 1..(Len(s) - Len(sub) + 1) : SubSeq(s, i, i + Len(sub) - 1) = sub

\* the characters the regular expression \s matches, and the separators of
\* the tokens of a class attribute
IsWhitespace(c) == c \in {" ", "\t", "\n", "\r", "\f"}

UpperChars == "ABCDEFGHIJKLMNOPQRSTUVWXYZ"
LowerChars == "abcdefghijklmnopqrstuvwxyz"

IsAlpha(c) == Includes(UpperChars, c) \/ Includes(LowerChars, c)
IsDigit(c) == Includes("0123456789", c)

LowerChar(c) ==
    IF \E k \in 1..26 : CharAt(UpperChars, k) = c
    THEN CharAt(LowerChars, CHOOSE k \in 1..26 : CharAt(UpperChars, k) = c)
    ELSE c

\* a string of two or more characters is worked on as its two halves, which
\* keeps the recursions over the characters of a text shallow
FirstHalf(s) == SubSeq(s, 1, Len(s) \div 2)
SecondHalf(s) == SubSeq(s, Len(s) \div 2 + 1, Len(s))

RECURSIVE ToLowerCase(_)
\* String.prototype.toLowerCase
ToLowerCase(s) ==
    IF Len(s) <= 1 THEN LowerChar(s)
    ELSE ToLowerCase(FirstHalf(s)) \o ToLowerCase(SecondHalf(s))

\* the CSS class selector .cls against one class attribute value: cls is one
\* of the whitespace-separated tokens of the value
HasClassToken(value, cls) ==
    \E i \in 1..(Len(value) - Len(cls) + 1) :
        /\ SubSeq(value, i, i + Len(cls) - 1) = cls
        /\ (i = 1 \/ IsWhitespace(CharAt(value, i - 1)))
        /\ (i + Len(cls) - 1 = Len(value) \/ IsWhitespace(CharAt(value, i + Len(cls))))

\* the pieces of a text from the pieces l and r of its halves: the last piece
\* of l and the first of r are one piece, and no piece at all when inGap, the
\* separator that ends l and the one that starts r being one separator
JoinSplits(l, r, inGap) ==
    SubSeq(l, 1, Len(l) - 1)
        \o (IF inGap THEN <<>> ELSE <<l[Len(l)] \o r[1]>>)
        \o SubSeq(r, 2, Len(r))

RECURSIVE SplitWs(_)
\* String.prototype.split(/\s+/): the maximal runs of non-whitespace, with an
\* empty token where the string starts or ends with whitespace or is empty.
\* A run of whitespace is one separator, across the two halves too.
SplitWs(s) ==
    IF s = "" THEN <<"">>
    ELSE IF Len(s) = 1 THEN (IF IsWhitespace(s) THEN <<"", "">> ELSE <<s>>)
    ELSE JoinSplits(SplitWs(FirstHalf(s)), SplitWs(SecondHalf(s)),
                    IsWhitespace(CharAt(s, Len(s) \div 2))
                        /\ IsWhitespace(CharAt(s, Len(s) \div 2 + 1)))

\* the text as one token
SplitOnWhitespace_wholeText(s) == <<s>>

SplitOnWhitespace(s) == SplitWs(s)

RECURSIVE CollapseWs(_, _)
\* String.prototype.replace(/\s+/g, ' ')
\* inGap: the character before s is whitespace, so that whitespace at the
\* start of s continues a run that is replaced already
CollapseWs(s, inGap) ==
    IF s = "" THEN ""
    ELSE IF Len(s) = 1
         THEN (IF IsWhitespace(s) THEN (IF inGap THEN "" ELSE " ") ELSE s)
    ELSE CollapseWs(FirstHalf(s), inGap)
             \o CollapseWs(SecondHalf(s), IsWhitespace(CharAt(s, Len(s) \div 2)))

RECURSIVE TrimStart(_)
TrimStart(s) ==
    IF s # "" /\ IsWhitespace(CharAt(s, 1)) THEN TrimStart(Tail(s)) ELSE s

RECURSIVE TrimEnd(_)
TrimEnd(s) ==
    IF s # "" /\ IsWhitespace(CharAt(s, Len(s)))
    THEN TrimEnd(SubSeq(s, 1, Len(s) - 1)) ELSE s

\* String.prototype.trim
Trim(s) == TrimEnd(TrimStart(s))

---------------------------------------------------------------------------
(* Pages *)

\* an element with no attributes and no text
Elem(tag) ==
    [tag |-> tag, class |-> "", id |-> "", src |-> "", href |-> "",
     alt |-> "", type |-> "", name |-> "", property |-> "", content |-> "",
     flags |-> {}, html |-> "", text |-> ""]

WithClass(tag, class) == [Elem(tag) EXCEPT !.class = class]
WithId(tag, id) == [Elem(tag) EXCEPT !.id = id]
WithSrc(tag, src) == [Elem(tag) EXCEPT !.src = src]
WithHref(tag, href, text) == [Elem(tag) EXCEPT !.href = href, !.text = text]
WithFlag(tag, flag) == [Elem(tag) EXCEPT !.flags = {flag}]
WithText(tag, class, text) == [Elem(tag) EXCEPT !.class = class, !.text = text]
Meta(name, content) == [Elem("meta") EXCEPT !.name = name, !.content = content]

\* the elements the pages of the classification runs are made of
Catalog ==
    << WithClass("div", "cart"),
       WithSrc("img", "https://cdn.test/stripe-badge.png"),
       WithClass("div", "product-card"),
       Elem("article"),
       WithClass("div", "news"),
       WithClass("div", "gallery"),
       WithClass("div", "login comments"),
       WithSrc("img", "/photo.png"),
       WithHref("a", "https://facebook.com/x", "Follow us"),
       WithClass("div", "topic-list"),
       WithClass("div", "docs"),
       WithClass("form", "signin app"),
       WithClass("div", "course"),
       WithClass("video", "media"),
       WithClass("div", "gov"),
       WithClass("div", "donate"),
       WithClass("div", "hero"),
       WithClass("nav", "about"),
       Elem("footer"),
       WithText("p", "", "Shop  the SALE\n today"),
       Elem("form"),
       WithText("button", "add-to-cart", "Add to cart"),
       WithHref("a", "https://checkout.stripe.com/pay", "Pay") >>

\* the elements the pages of the framework and CMS runs are made of
TechCatalog ==
    << WithSrc("script", "/js/react.min.js"),
       WithFlag("div", "data-reactroot"),
       WithSrc("script", "/js/vue.js"),
       WithSrc("script", "/js/angular.js"),
       WithFlag("div", "ng-app"),
       Meta("generator", "WordPress 6.4"),
       Meta("generator", "Drupal 10 (WordPress importer)"),
       Meta("generator", "Joomla! with Drupal bridge"),
       Meta("generator", ""),
       Meta("description", "About Joomla") >>

\* the elements the pages of the class and id runs are made of
ClassCatalog ==
    << WithClass("div", "a b a"),
       WithClass("div", "b c"),
       WithClass("div", "a\tb"),
       WithClass("div", "navbar  main "),
       WithClass("span", "c\nd a"),
       WithId("div", "cart-total") >>

Script(type, html) == [Elem("script") EXCEPT !.type = type, !.html = html]

\* the elements the pages of the structured-data and title runs are made of;
\* the second title is the title of an inline svg image
JsonCatalog ==
    << Script("application/ld+json", "{\"@type\": \"Product\", \"name\": \"Acme\"}"),
       Script("application/ld+json", "{\"@type\": \"Product\",}"),
       Script("application/ld+json", ""),
       Script("application/ld+json", " [1, {\"a\": null, \"b\": \"x\\ny\"}]\n"),
       Script("application/ld+json", "  "),
       Script("text/javascript", "{\"x\": 1}"),
       Script("application/ld+json", "{'a': 1}"),
       Script("application/ld+json", "-0.5e+2"),
       Script("application/ld+json", "{\"a\": 01}"),
       [Elem("title") EXCEPT !.text = "Shop"],
       WithSrc("img", "/photo.png"),
       [Elem("title") EXCEPT !.text = " Cart icon"],
       [Elem("title") EXCEPT !.text = " \n"] >>

\* the elements the pages of the analytics, social and payment runs are made of
MatchCatalog ==
    << Script("", "gtag('config', 'G-1')"),
       Script("", "window.gtag = load('google-analytics'); mixpanel.init('k')"),
       Script("", "facebook('pixel')"),
       WithHref("a", "https://facebook.com/acme", "Facebook"),
       WithHref("a", "https://www.facebook.com/acme-shop", "Shop page"),
       WithHref("a", "https://twitter.com/acme", "Twitter"),
       [WithSrc("img", "/img/stripe.png") EXCEPT !.class = "stripe-badge"],
       WithClass("div", "paypal-button"),
       WithSrc("img", "/img/paypal.png") >>

\* the elements the pages of the keyword runs are made of
TextCatalog ==
    << WithText("p", "", "Shopping cart: BUY  now, free shipping"),
       WithText("p", "", " Read our Blog posts\tand FAQ\n"),
       WithText("button", "", " add to cart "),
       WithText("p", "", "Checkout with PayPal or visa "),
       WithText("button", "", "Buy now"),
       WithText("p", "", " shop shop "),
       [Elem("title") EXCEPT !.text = "Price list"] >>

\* the strictly increasing index sequences over 1..n of length at most k: the
\* pages that take their elements from a catalog in the catalog's order
RECURSIVE Increasing(_, _)
Increasing(n, k) ==
    IF k = 0 THEN {<<>>}
    ELSE LET shorter == Increasing(n, k - 1)
             longest == {t \in shorter : Len(t) = k - 1}
         IN  shorter \cup
             { q \in { Append(s, i) : s \in longest, i \in 1..n } :
                   Len(q) = 1 \/ q[Len(q)] > q[Len(q) - 1] }

PagesOf(catalog) ==
    { [i \in 1..Len(s) |-> catalog[s[i]]] : s \in Increasing(Len(catalog), MaxElems) }

Urls == {"https://x.test/page", "https://city.gov/services", "not a url"}

---------------------------------------------------------------------------
(* cheerio selections: $(selector).length > 0 *)

Elems(p) == { p[i] : i \in DOMAIN p }

\* $('tag')
Tag(p, tag) == \E e \in Elems(p) : e.tag = tag

\* $('.cls')
Class(p, cls) == \E e \in Elems(p) : HasClassToken(e.class, cls)

\* $('[class*="sub"]')
ClassContains(p, sub) == \E e \in Elems(p) : Includes(e.class, sub)

\* $('[id*="sub"]')
IdContains(p, sub) == \E e \in Elems(p) : Includes(e.id, sub)

\* $('tag[src*="sub"]')
TagSrcContains(p, tag, sub) ==
    \E e \in Elems(p) : e.tag = tag /\ Includes(e.src, sub)

\* $('a[href*="sub"]')
LinkContains(p, sub) ==
    \E e \in Elems(p) : e.tag = "a" /\ Includes(e.href, sub)

\* $('[flag]')
HasAttribute(p, flag) == \E e \in Elems(p) : flag \in e.flags

\* $('meta[name="generator"]').attr('content'): the content of the first such
\* element, undefined when there is none or it has no content
GeneratorContent(p) ==
    LET gens == SelectSeq(p, LAMBDA e : e.tag = "meta" /\ e.name = "generator")
    IN  IF gens = <<>> THEN "" ELSE gens[1].content

---------------------------------------------------------------------------
(* detectElements *)

detectElements(p) ==
    [ hasVideo |-> Tag(p, "video") \/ TagSrcContains(p, "iframe", "youtube")
                   \/ TagSrcContains(p, "iframe", "vimeo"),
      hasImages |-> Tag(p, "img"),
      hasForms |-> Tag(p, "form"),
      hasNavigation |-> Tag(p, "nav") \/ Class(p, "nav") \/ Class(p, "navigation"),
      hasFooter |-> Tag(p, "footer") \/ Class(p, "footer"),
      hasSidebar |-> Class(p, "sidebar") \/ Class(p, "side-bar") \/ Tag(p, "aside"),
      hasComments |-> Class(p, "comments") \/ Class(p, "comment")
                      \/ IdContains(p, "comment"),
      hasSearch |-> (\E e \in Elems(p) : e.tag = "input" /\ e.type = "search")
                    \/ Class(p, "search") \/ IdContains(p, "search"),
      hasShoppingCart |-> Class(p, "cart") \/ Class(p, "shopping-cart")
                          \/ IdContains(p, "cart"),
      hasUserAuth |-> Class(p, "login") \/ Class(p, "signin")
                      \/ IdContains(p, "login") \/ IdContains(p, "signin") ]

---------------------------------------------------------------------------
(* detectTechnicalDetails *)

\* cond && list.push(item)
PushIf(cond, item) == IF cond THEN <<item>> ELSE <<>>

RECURSIVE detectAnalytics(_)
\* one pass over the script elements, each pushing an entry per indicator
detectAnalytics(p) ==
    IF p = <<>> THEN <<>>
    ELSE LET e == Head(p)
         IN  (IF e.tag = "script"
              THEN PushIf(Includes(e.html, "google-analytics") \/ Includes(e.html, "gtag"),
                          "Google Analytics")
                   \o PushIf(Includes(e.html, "facebook") /\ Includes(e.html, "pixel"),
                             "Facebook Pixel")
                   \o PushIf(Includes(e.html, "mixpanel"), "Mixpanel")
              ELSE <<>>)
             \o detectAnalytics(Tail(p))

RECURSIVE detectSocialMedia_perLink(_)
\* one pass over the links, each pushing an entry per network it points to
detectSocialMedia_perLink(p) ==
    IF p = <<>> THEN <<>>
    ELSE (IF Head(p).tag = "a"
          THEN PushIf(Includes(Head(p).href, "facebook.com"), "Facebook")
               \o PushIf(Includes(Head(p).href, "twitter.com"), "Twitter")
               \o PushIf(Includes(Head(p).href, "linkedin.com"), "LinkedIn")
               \o PushIf(Includes(Head(p).href, "instagram.com"), "Instagram")
               \o PushIf(Includes(Head(p).href, "youtube.com"), "YouTube")
          ELSE <<>>)
         \o detectSocialMedia_perLink(Tail(p))

detectSocialMedia(p) ==
    PushIf(LinkContains(p, "facebook.com"), "Facebook")
    \o PushIf(LinkContains(p, "twitter.com"), "Twitter")
    \o PushIf(LinkContains(p, "linkedin.com"), "LinkedIn")
    \o PushIf(LinkContains(p, "instagram.com"), "Instagram")
    \o PushIf(LinkContains(p, "youtube.com"), "YouTube")

detectPaymentMethods(p) ==
    PushIf(TagSrcContains(p, "img", "stripe"), "Stripe")
    \o PushIf(TagSrcContains(p, "img", "paypal"), "PayPal")
    \o PushIf(TagSrcContains(p, "img", "square"), "Square")
    \o PushIf(ClassContains(p, "stripe"), "Stripe")
    \o PushIf(ClassContains(p, "paypal"), "PayPal")

IsReact(p) == TagSrcContains(p, "script", "react") \/ HasAttribute(p, "data-reactroot")
IsVue(p) == TagSrcContains(p, "script", "vue") \/ HasAttribute(p, "data-v-")
IsAngular(p) == TagSrcContains(p, "script", "angular") \/ HasAttribute(p, "ng-app")

\* the framework checks as an if / else-if chain
detectFramework_firstMatch(p) ==
    IF IsReact(p) THEN "React"
    ELSE IF IsVue(p) THEN "Vue.js"
    ELSE IF IsAngular(p) THEN "Angular"
    ELSE Undefined

\* three independent `if`s, each assigning framework
detectFramework(p) ==
    LET f0 == Undefined
        f1 == IF IsReact(p) THEN "React" ELSE f0
        f2 == IF IsVue(p) THEN "Vue.js" ELSE f1
        f3 == IF IsAngular(p) THEN "Angular" ELSE f2
    IN  f3

IsCms(p, marker) == Includes(GeneratorContent(p), marker)

detectCms(p) ==
    LET c0 == Undefined
        c1 == IF IsCms(p, "WordPress") THEN "WordPress" ELSE c0
        c2 == IF IsCms(p, "Drupal") THEN "Drupal" ELSE c1
        c3 == IF IsCms(p, "Joomla") THEN "Joomla" ELSE c2
    IN  c3

detectTechnicalDetails(p) ==
    [ framework |-> detectFramework(p),
      cms |-> detectCms(p),
      analytics |-> detectAnalytics(p),
      socialMedia |-> detectSocialMedia(p),
      paymentMethods |-> detectPaymentMethods(p) ]

---------------------------------------------------------------------------
(* determineWebsiteType: the conditions of its `if` statements, in the     *)
(* order of the code, with the grouping JavaScript gives && and ||         *)

EcommerceRule(p, elements, technical, u) ==
    elements.hasShoppingCart \/ Len(technical.paymentMethods) > 0
    \/ Class(p, "product") \/ ClassContains(p, "product")
    \/ Class(p, "price") \/ ClassContains(p, "price")

BlogRule(p, elements, technical, u) ==
    Tag(p, "article") \/ Class(p, "post") \/ Class(p, "blog")
    \/ ClassContains(p, "post") \/ ClassContains(p, "blog")

NewsRule(p, elements, technical, u) ==
    Class(p, "news") \/ ClassContains(p, "news")
    \/ Class(p, "article") \/ ClassContains(p, "article")
    \/ Class(p, "headline") \/ ClassContains(p, "headline")

PortfolioRule(p, elements, technical, u) ==
    Class(p, "portfolio") \/ ClassContains(p, "portfolio")
    \/ Class(p, "gallery") \/ ClassContains(p, "gallery")
    \/ Class(p, "work") \/ ClassContains(p, "work")

\* the rule without its test of technical.socialMedia
SocialMediaRule_noSocialLinks(p, elements, technical, u) ==
    elements.hasUserAuth /\ elements.hasComments
    /\ (elements.hasVideo \/ elements.hasImages)

SocialMediaRule(p, elements, technical, u) ==
    elements.hasUserAuth /\ elements.hasComments
    /\ (elements.hasVideo \/ elements.hasImages)
    /\ Len(technical.socialMedia) > 0

\* comments and user authentication required by every alternative
ForumRule_needsCommentsAndAuth(p, elements, technical, u) ==
    elements.hasComments /\ elements.hasUserAuth
    /\ (Class(p, "thread") \/ ClassContains(p, "thread")
        \/ Class(p, "topic") \/ ClassContains(p, "topic"))

ForumRule(p, elements, technical, u) ==
    (elements.hasComments /\ elements.hasUserAuth /\ Class(p, "thread"))
    \/ ClassContains(p, "thread")
    \/ Class(p, "topic") \/ ClassContains(p, "topic")

DocumentationRule(p, elements, technical, u) ==
    Class(p, "documentation") \/ ClassContains(p, "docs")
    \/ Class(p, "tutorial") \/ ClassContains(p, "tutorial")
    \/ Class(p, "guide") \/ ClassContains(p, "guide")

SaasRule(p, elements, technical, u) ==
    elements.hasUserAuth /\ elements.hasForms
    /\ (Class(p, "dashboard") \/ ClassContains(p, "dashboard")
        \/ Class(p, "app") \/ ClassContains(p, "app"))

EducationalRule(p, elements, technical, u) ==
    Class(p, "course") \/ ClassContains(p, "course")
    \/ Class(p, "lesson") \/ ClassContains(p, "lesson")
    \/ Class(p, "education") \/ ClassContains(p, "education")

EntertainmentRule(p, elements, technical, u) ==
    elements.hasVideo
    /\ (Class(p, "entertainment") \/ ClassContains(p, "entertainment")
        \/ Class(p, "media") \/ ClassContains(p, "media"))

GovernmentRule(p, elements, technical, u) ==
    Class(p, "gov") \/ ClassContains(p, "gov")
    \/ Includes(u, ".gov") \/ Class(p, "government")

NonprofitRule(p, elements, technical, u) ==
    Class(p, "nonprofit") \/ ClassContains(p, "nonprofit")
    \/ Class(p, "charity") \/ ClassContains(p, "charity")
    \/ Class(p, "donate") \/ ClassContains(p, "donate")

LandingPageRule(p, elements, technical, u) ==
    Class(p, "landing") \/ ClassContains(p, "landing")
    \/ Class(p, "hero") \/ ClassContains(p, "hero")

CorporateRule(p, elements, technical, u) ==
    elements.hasNavigation /\ elements.hasFooter
    /\ (Class(p, "about") \/ ClassContains(p, "about")
        \/ Class(p, "contact") \/ ClassContains(p, "contact"))

\* the values of the WebsiteType enumeration
WebsiteTypeSchema ==
    { "ecommerce", "blog", "news", "portfolio", "corporate", "social_media",
      "forum", "documentation", "landing_page", "saas", "educational",
      "entertainment", "government", "nonprofit", "unknown" }

\* the rule chain after the blog rule
AfterBlog(p, elements, technical, u) ==
    IF NewsRule(p, elements, technical, u) THEN "news"
    ELSE IF PortfolioRule(p, elements, technical, u) THEN "portfolio"
    ELSE IF SocialMediaRule(p, elements, technical, u) THEN "social_media"
    ELSE IF ForumRule(p, elements, technical, u) THEN "forum"
    ELSE IF DocumentationRule(p, elements, technical, u) THEN "documentation"
    ELSE IF SaasRule(p, elements, technical, u) THEN "saas"
    ELSE IF EducationalRule(p, elements, technical, u) THEN "educational"
    ELSE IF EntertainmentRule(p, elements, technical, u) THEN "entertainment"
    ELSE IF GovernmentRule(p, elements, technical, u) THEN "government"
    ELSE IF NonprofitRule(p, elements, technical, u) THEN "nonprofit"
    ELSE IF LandingPageRule(p, elements, technical, u) THEN "landing_page"
    ELSE IF CorporateRule(p, elements, technical, u) THEN "corporate"
    ELSE "unknown"

\* the chain with the blog rule tested before the e-commerce rule
determineWebsiteType_blogFirst(p, elements, technical, u) ==
    IF BlogRule(p, elements, technical, u) THEN "blog"
    ELSE IF EcommerceRule(p, elements, technical, u) THEN "ecommerce"
    ELSE AfterBlog(p, elements, technical, u)

\* the chain without its last rule
determineWebsiteType_noCorporateRule(p, elements, technical, u) ==
    IF EcommerceRule(p, elements, technical, u) THEN "ecommerce"
    ELSE IF BlogRule(p, elements, technical, u) THEN "blog"
    ELSE LET t == AfterBlog(p, elements, technical, u)
         IN  IF t = "corporate" THEN "unknown" ELSE t

\* the chain reading the host of the url, which raises on a url without one
determineWebsiteType_parsesUrl(p, elements, technical, u) ==
    IF ~Includes(u, "://") THEN "InvalidInput"
    ELSE IF EcommerceRule(p, elements, technical, u) THEN "ecommerce"
    ELSE IF BlogRule(p, elements, technical, u) THEN "blog"
    ELSE AfterBlog(p, elements, technical, u)

determineWebsiteType(p, elements, technical, u) ==
    IF EcommerceRule(p, elements, technical, u) THEN "ecommerce"
    ELSE IF BlogRule(p, elements, technical, u) THEN "blog"
    ELSE AfterBlog(p, elements, technical, u)

---------------------------------------------------------------------------
(* JSON values: a value is a record of its type t and its content v; an    *)
(* object's content is a function from its keys to values, an array's a    *)
(* sequence of values.  The document under construction is the function of *)
(* its top-level keys.                                                     *)

Str(s) == [t |-> "string", v |-> s]
Arr(items) == [t |-> "array", v |-> items]
Obj(fields) == [t |-> "object", v |-> fields]

NoFields == [k \in {} |-> Str("")]

\* !value: of the values here only the empty string is falsy
IsFalsy(value) == value.t = "string" /\ value.v = ""

\* schema[key] = value
SetKey(schema, key, value) ==
    [k \in DOMAIN schema \cup {key} |-> IF k = key THEN value ELSE schema[k]]

\* Object.assign(target, source), and the spread { ...target, ...source }
ObjectAssign(target, source) ==
    [k \in DOMAIN target \cup DOMAIN source |->
        IF k \in DOMAIN source THEN source[k] ELSE target[k]]

---------------------------------------------------------------------------
(* JSON.parse(text), as ECMA-404 defines the grammar.  A parse step gives   *)
(* whether it succeeded, the value read and the text after it.  A number is *)
(* kept as its literal, and of the string escapes \b and \uXXXX are kept as *)
(* written.                                                                 *)

Num(literal) == [t |-> "number", v |-> literal]
Literal(name) == [t |-> "literal", v |-> name]

ParseFailed == [ok |-> FALSE, value |-> Literal("null"), rest |-> ""]
Parsed(value, rest) == [ok |-> TRUE, value |-> value, rest |-> rest]

\* the characters JSON allows between tokens
IsJsonWhitespace(c) == c \in {" ", "\t", "\n", "\r"}

RECURSIVE SkipJsonWs(_)
SkipJsonWs(s) ==
    IF s # "" /\ IsJsonWhitespace(CharAt(s, 1)) THEN SkipJsonWs(Tail(s)) ELSE s

\* the character at position i, or nothing past the end
JsonAt(s, i) == IF i <= Len(s) THEN CharAt(s, i) ELSE ""

From(s, i) == SubSeq(s, i, Len(s))

IsHex(c) == IsDigit(c) \/ Includes("abcdefABCDEF", c)

\* the character a two-character escape stands for
Unescape(e) ==
    CASE e = "n" -> "\n"
      [] e = "t" -> "\t"
      [] e = "r" -> "\r"
      [] e = "f" -> "\f"
      [] e = "b" -> "\\b"
      [] OTHER -> e

RECURSIVE ParseString(_, _)
\* the characters of a string after its opening quote
ParseString(s, acc) ==
    IF s = "" THEN ParseFailed
    ELSE IF CharAt(s, 1) = "\"" THEN Parsed(Str(acc), Tail(s))
    ELSE IF CharAt(s, 1) = "\\"
         THEN IF JsonAt(s, 2) # "" /\ Includes("\"\\/bfnrt", JsonAt(s, 2))
              THEN ParseString(From(s, 3), acc \o Unescape(JsonAt(s, 2)))
              ELSE IF JsonAt(s, 2) = "u" /\ Len(s) >= 6
                      /\ \A i \in 3..6 : IsHex(CharAt(s, i))
                   THEN ParseString(From(s, 7), acc \o SubSeq(s, 1, 6))
                   ELSE ParseFailed
    ELSE IF CharAt(s, 1) \in {"\t", "\n", "\r", "\f"} THEN ParseFailed
    ELSE ParseString(Tail(s), acc \o CharAt(s, 1))

DigitAt(s, i) == i <= Len(s) /\ IsDigit(CharAt(s, i))

RECURSIVE DigitsFrom(_, _)
\* the position after the digits that start at position i
DigitsFrom(s, i) == IF DigitAt(s, i) THEN DigitsFrom(s, i + 1) ELSE i

\* the position after the integer part that starts at i, 0 when there is none
IntegerEnd(s, i) ==
    IF JsonAt(s, i) = "0" THEN i + 1
    ELSE IF DigitAt(s, i) THEN DigitsFrom(s, i) ELSE 0

\* the position after the optional fraction that starts at i, 0 when a "." is
\* followed by no digit
FractionEnd(s, i) ==
    IF i = 0 THEN 0
    ELSE IF JsonAt(s, i) # "." THEN i
    ELSE IF DigitAt(s, i + 1) THEN DigitsFrom(s, i + 1) ELSE 0

\* the position after the optional exponent that starts at i
ExponentEnd(s, i) ==
    IF i = 0 THEN 0
    ELSE IF JsonAt(s, i) \notin {"e", "E"} THEN i
    ELSE IF JsonAt(s, i + 1) \in {"+", "-"}
         THEN IF DigitAt(s, i + 2) THEN DigitsFrom(s, i + 2) ELSE 0
         ELSE IF DigitAt(s, i + 1) THEN DigitsFrom(s, i + 1) ELSE 0

NumberEnd(s) ==
    ExponentEnd(s, FractionEnd(s, IntegerEnd(s, IF JsonAt(s, 1) = "-" THEN 2 ELSE 1)))

NumberUpTo(s, end) ==
    IF end = 0 THEN ParseFailed ELSE Parsed(Num(SubSeq(s, 1, end - 1)), From(s, end))

ParseNumber(s) == NumberUpTo(s, NumberEnd(s))

ParseLiteral(s) ==
    IF StartsWith(s, "true") THEN Parsed(Literal("true"), From(s, 5))
    ELSE IF StartsWith(s, "false") THEN Parsed(Literal("false"), From(s, 6))
    ELSE IF StartsWith(s, "null") THEN Parsed(Literal("null"), From(s, 5))
    ELSE ParseFailed

RECURSIVE ParseValue(_)
RECURSIVE ValueAt(_)
RECURSIVE ParseItems(_, _)
RECURSIVE AfterItemValue(_, _)
RECURSIVE AfterItem(_, _)
RECURSIVE ParseMembers(_, _)
RECURSIVE AfterKey(_, _)
RECURSIVE AfterColon(_, _, _)
RECURSIVE AfterMemberValue(_, _, _)
RECURSIVE AfterMember(_, _)

\* a value, after the whitespace before it
ValueAt(s) ==
    IF s = "" THEN ParseFailed
    ELSE IF CharAt(s, 1) = "{"
         THEN IF JsonAt(SkipJsonWs(Tail(s)), 1) = "}"
              THEN Parsed(Obj(NoFields), Tail(SkipJsonWs(Tail(s))))
              ELSE ParseMembers(SkipJsonWs(Tail(s)), NoFields)
    ELSE IF CharAt(s, 1) = "["
         THEN IF JsonAt(SkipJsonWs(Tail(s)), 1) = "]"
              THEN Parsed(Arr(<<>>), Tail(SkipJsonWs(Tail(s))))
              ELSE ParseItems(Tail(s), <<>>)
    ELSE IF CharAt(s, 1) = "\"" THEN ParseString(Tail(s), "")
    ELSE IF CharAt(s, 1) = "-" \/ IsDigit(CharAt(s, 1)) THEN ParseNumber(s)
    ELSE ParseLiteral(s)

ParseValue(s) == ValueAt(SkipJsonWs(s))

\* the items of an array after "[" or ","
ParseItems(s, items) == AfterItemValue(ParseValue(s), items)

AfterItemValue(r, items) ==
    IF r.ok THEN AfterItem(SkipJsonWs(r.rest), Append(items, r.value)) ELSE ParseFailed

AfterItem(s, items) ==
    IF JsonAt(s, 1) = "," THEN ParseItems(Tail(s), items)
    ELSE IF JsonAt(s, 1) = "]" THEN Parsed(Arr(items), Tail(s))
    ELSE ParseFailed

\* the members of an object after "{" or ",": a key, a colon, a value
ParseMembers(s, fields) ==
    IF JsonAt(s, 1) = "\"" THEN AfterKey(ParseString(Tail(s), ""), fields)
    ELSE ParseFailed

AfterKey(k, fields) ==
    IF k.ok THEN AfterColon(SkipJsonWs(k.rest), k.value.v, fields) ELSE ParseFailed

AfterColon(s, key, fields) ==
    IF JsonAt(s, 1) = ":" THEN AfterMemberValue(ParseValue(Tail(s)), key, fields)
    ELSE ParseFailed

AfterMemberValue(r, key, fields) ==
    IF r.ok THEN AfterMember(SkipJsonWs(r.rest), SetKey(fields, key, r.value))
    ELSE ParseFailed

AfterMember(s, fields) ==
    IF JsonAt(s, 1) = "," THEN ParseMembers(SkipJsonWs(Tail(s)), fields)
    ELSE IF JsonAt(s, 1) = "}" THEN Parsed(Obj(fields), Tail(s))
    ELSE ParseFailed

\* the whole text is one value, with whitespace around it at most
WholeText(r) == IF r.ok /\ SkipJsonWs(r.rest) = "" THEN r ELSE ParseFailed

JSONParse(text) == WholeText(ParseValue(text))

---------------------------------------------------------------------------
(* collectScrapedData *)

\* the tags of the document head, whose text is not part of $('body').text()
HeadTags == {"title", "meta", "link"}

RECURSIVE ConcatTexts(_)
\* $(selection).text(): the texts of the selected elements, concatenated
ConcatTexts(elems) ==
    IF elems = <<>> THEN "" ELSE Head(elems).text \o ConcatTexts(Tail(elems))

allTextContent(p) ==
    Trim(CollapseWs(ConcatTexts(SelectSeq(p, LAMBDA e : e.tag \notin HeadTags)), FALSE))

\* the token is one of the keywords
Indicators_exactWord(text, keywords) ==
    SelectSeq(SplitOnWhitespace(ToLowerCase(text)), LAMBDA word : word \in keywords)

\* the tokens of the lower-cased text that contain one of the keywords
Indicators(text, keywords) ==
    SelectSeq(SplitOnWhitespace(ToLowerCase(text)),
              LAMBDA word : \E k \in keywords : Includes(word, k))

PaymentKeywords ==
    { "paypal", "stripe", "square", "visa", "mastercard", "amex", "payment",
      "checkout", "cart", "buy", "purchase" }

ContentKeywords ==
    { "article", "blog", "post", "news", "tutorial", "guide", "documentation",
      "help", "faq" }

EcommerceKeywords ==
    { "product", "price", "sale", "discount", "shipping", "inventory", "stock",
      "add to cart", "buy now", "shop" }

\* $('img').map(...): src is '' and alt is undefined when the attribute is
\* absent or empty
ImageOf(e) == [src |-> e.src, alt |-> IF e.alt = "" THEN Undefined ELSE e.alt]

\* $('meta[name="description"]').attr('content') ||
\* $('meta[property="og:description"]').attr('content')
FirstContent(hits) == IF hits = <<>> THEN "" ELSE hits[1].content

DescriptionOf(p) ==
    LET byName ==
            FirstContent(SelectSeq(p, LAMBDA e : e.tag = "meta" /\ e.name = "description"))
    IN  IF byName # "" THEN byName
        ELSE FirstContent(SelectSeq(p, LAMBDA e : e.tag = "meta"
                                                  /\ e.property = "og:description"))

\* $('title').text().trim() || 'Untitled'
TitleOf(p) ==
    LET t == Trim(ConcatTexts(SelectSeq(p, LAMBDA e : e.tag = "title")))
    IN  IF t = "" THEN "Untitled" ELSE t

RECURSIVE SplitOnSpace(_)
\* String.prototype.split(' '): the pieces between single spaces, empty ones
\* included
SplitOnSpace(s) ==
    IF s = "" THEN <<"">>
    ELSE IF Len(s) = 1 THEN (IF s = " " THEN <<"", "">> ELSE <<s>>)
    ELSE JoinSplits(SplitOnSpace(FirstHalf(s)), SplitOnSpace(SecondHalf(s)), FALSE)

RECURSIVE AddClasses_noDedup(_, _)
\* every non-empty piece pushed, seen before or not
AddClasses_noDedup(acc, pieces) ==
    IF pieces = <<>> THEN acc
    ELSE AddClasses_noDedup(IF Trim(Head(pieces)) # ""
                            THEN Append(acc, Trim(Head(pieces))) ELSE acc,
                            Tail(pieces))

RECURSIVE AddClasses(_, _)
\* the forEach over the pieces of one class attribute: a piece is pushed,
\* trimmed, when it is not empty and not yet in the list
AddClasses(acc, pieces) ==
    IF pieces = <<>> THEN acc
    ELSE AddClasses(IF Trim(Head(pieces)) # ""
                       /\ \A i \in DOMAIN acc : acc[i] # Trim(Head(pieces))
                    THEN Append(acc, Trim(Head(pieces))) ELSE acc,
                    Tail(pieces))

RECURSIVE allClasses(_, _)
\* $('*').each: the classes of the elements in document order
allClasses(acc, p) ==
    IF p = <<>> THEN acc
    ELSE allClasses(IF Head(p).class # ""
                    THEN AddClasses(acc, SplitOnSpace(Head(p).class))
                    ELSE acc,
                    Tail(p))

\* $('script[type="application/ld+json"]')
IsJsonLd(e) == e.tag = "script" /\ e.type = "application/ld+json"

\* what one block adds: if (content) structuredData.push(JSON.parse(content)),
\* and nothing when JSON.parse throws, the catch being empty
PushParsed(r) == IF r.ok THEN <<r.value>> ELSE <<>>

BlockData(e) == IF e.html # "" THEN PushParsed(JSONParse(e.html)) ELSE <<>>

RECURSIVE structuredData_stopsAtFailure(_)
\* the try around the whole loop: the first block that fails ends the loop
structuredData_stopsAtFailure(p) ==
    IF p = <<>> THEN <<>>
    ELSE IF ~IsJsonLd(Head(p)) THEN structuredData_stopsAtFailure(Tail(p))
    ELSE IF Head(p).html # "" /\ ~JSONParse(Head(p).html).ok THEN <<>>
    ELSE BlockData(Head(p)) \o structuredData_stopsAtFailure(Tail(p))

RECURSIVE structuredData(_)
\* the each over the JSON-LD blocks, with the try inside the callback
structuredData(p) ==
    IF p = <<>> THEN <<>>
    ELSE (IF IsJsonLd(Head(p)) THEN BlockData(Head(p)) ELSE <<>>)
         \o structuredData(Tail(p))

collectScrapedData(p) ==
    [ title |-> TitleOf(p),
      structuredData |-> structuredData(p),
      allClasses |-> allClasses(<<>>, p),
      allTextContent |-> allTextContent(p),
      images |-> LET imgs == SelectSeq(p, LAMBDA e : e.tag = "img")
                 IN  [i \in 1..Len(imgs) |-> ImageOf(imgs[i])],
      paymentIndicators |-> Indicators(allTextContent(p), PaymentKeywords),
      ecommerceIndicators |-> Indicators(allTextContent(p), EcommerceKeywords),
      contentIndicators |-> Indicators(allTextContent(p), ContentKeywords) ]

---------------------------------------------------------------------------
(* analyzeWebsite: from the rendered page to the analysis result *)

analyzeWebsite(p, u) ==
    LET elements == detectElements(p)
        technical == detectTechnicalDetails(p)
    IN  [ url |-> u,
          title |-> TitleOf(p),
          description |-> DescriptionOf(p),
          websiteType |-> determineWebsiteType(p, elements, technical, u),
          detectedElements |-> elements,
          technicalDetails |-> technical,
          scrapedData |-> collectScrapedData(p) ]

---------------------------------------------------------------------------
(* new URL(input, base).href, as the URL Standard defines it, for URLs      *)
(* whose authority is a host name without credentials and port and whose   *)
(* scheme is not file.  A URL is a record: its scheme, its host when it     *)
(* has an authority, its path as a sequence of segments (or as one opaque  *)
(* string), its query with the leading "?" and its fragment with the       *)
(* leading "#".                                                            *)

InvalidURL ==
    [valid |-> FALSE, scheme |-> "", hasAuthority |-> FALSE, host |-> "",
     opaque |-> FALSE, opaquePath |-> "", path |-> <<>>, query |-> "",
     fragment |-> ""]

SpecialSchemes == {"http", "https", "ftp", "ws", "wss"}


RECURSIVE ScanScheme(_, _)
\* the index of the ":" that ends the scheme of s, 0 when s has no scheme:
\* a letter, then letters, digits, "+", "-" and ".", then ":"
ScanScheme(s, i) ==
    IF i > Len(s) THEN 0
    ELSE LET c == CharAt(s, i)
         IN  IF i = 1
             THEN (IF IsAlpha(c) THEN ScanScheme(s, 2) ELSE 0)
             ELSE IF c = ":" THEN i
             ELSE IF IsAlpha(c) \/ IsDigit(c) \/ c \in {"+", "-", "."}
                  THEN ScanScheme(s, i + 1)
             ELSE 0

HasScheme(s) == ScanScheme(s, 1) > 0

\* the index of the first character of s at or after from that is in chars,
\* Len(s) + 1 when there is none
FirstOf(s, chars, from) ==
    LET hits == {j \in from..Len(s) : CharAt(s, j) \in chars}
    IN  IF hits = {} THEN Len(s) + 1
        ELSE CHOOSE j \in hits : \A h \in hits : j <= h

RECURSIVE SplitOn(_, _)
\* the pieces of s between the characters of seps
SplitOn(s, seps) ==
    LET k == FirstOf(s, seps, 1)
    IN  IF k > Len(s) THEN <<s>>
        ELSE <<SubSeq(s, 1, k - 1)>> \o SplitOn(SubSeq(s, k + 1, Len(s)), seps)

RECURSIVE RemoveChars(_, _)
RemoveChars(s, chars) ==
    IF Len(s) <= 1 THEN (IF s \in chars THEN "" ELSE s)
    ELSE RemoveChars(FirstHalf(s), chars) \o RemoveChars(SecondHalf(s), chars)

\* the percent-encodings of the characters a URL component escapes (of the
\* printable ASCII characters all but the grave accent, which no input has)
PercentCode ==
    [c \in {" ", "\"", "<", ">", "{", "}", "'"} |->
        CASE c = " " -> "%20" [] c = "\"" -> "%22" [] c = "<" -> "%3C"
          [] c = ">" -> "%3E" [] c = "{" -> "%7B"
          [] c = "}" -> "%7D" [] c = "'" -> "%27"]

PathEncodeSet == {" ", "\"", "<", ">", "{", "}"}
QueryEncodeSet == {" ", "\"", "<", ">"}
SpecialQueryEncodeSet == {" ", "\"", "<", ">", "'"}
FragmentEncodeSet == {" ", "\"", "<", ">"}

RECURSIVE PercentEncode(_, _)
PercentEncode(s, chars) ==
    IF Len(s) <= 1 THEN (IF s \in chars THEN PercentCode[s] ELSE s)
    ELSE PercentEncode(FirstHalf(s), chars) \o PercentEncode(SecondHalf(s), chars)

IsSingleDot(seg) == seg \in {".", "%2e", "%2E"}

IsDoubleDot(seg) ==
    seg \in {"..", ".%2e", ".%2E", "%2e.", "%2E.", "%2e%2e", "%2e%2E", "%2E%2e", "%2E%2E"}

\* shorten a path: drop its last segment
Shorten(path) == IF path = <<>> THEN path ELSE SubSeq(path, 1, Len(path) - 1)

RECURSIVE NormalizeSegments(_, _)
\* the path state: ".." drops the last segment, "." is skipped, either one at
\* the end of the path leaves an empty last segment
NormalizeSegments(path, segs) ==
    IF segs = <<>> THEN path
    ELSE LET seg == Head(segs)
             last == Len(segs) = 1
         IN  IF IsDoubleDot(seg)
             THEN NormalizeSegments(IF last THEN Append(Shorten(path), "")
                                    ELSE Shorten(path), Tail(segs))
             ELSE IF IsSingleDot(seg)
             THEN NormalizeSegments(IF last THEN Append(path, "") ELSE path, Tail(segs))
             ELSE NormalizeSegments(Append(path, PercentEncode(seg, PathEncodeSet)),
                                    Tail(segs))

RECURSIVE JoinPath(_)
JoinPath(path) ==
    IF path = <<>> THEN "" ELSE "/" \o Head(path) \o JoinPath(Tail(path))

\* "/" and, in a URL with a special scheme, "\"
IsSlash(c, special) == c = "/" \/ (special /\ c = "\\")

RECURSIVE SkipSlashes(_)
SkipSlashes(s) ==
    IF s # "" /\ IsSlash(CharAt(s, 1), TRUE) THEN SkipSlashes(Tail(s)) ELSE s

\* of the text from the first "?" or "#" on: the query and the fragment
QueryOf(tail, special) ==
    IF StartsWith(tail, "?")
    THEN PercentEncode(SubSeq(tail, 1, FirstOf(tail, {"#"}, 1) - 1),
                       IF special THEN SpecialQueryEncodeSet ELSE QueryEncodeSet)
    ELSE ""

FragmentOf(tail) ==
    LET k == FirstOf(tail, {"#"}, 1)
    IN  IF k > Len(tail) THEN ""
        ELSE "#" \o PercentEncode(SubSeq(tail, k + 1, Len(tail)), FragmentEncodeSet)

\* the URL of a scheme and host whose path is `path` followed by the segments
\* of rest, rest running up to the end of the input
PathURL(scheme, hasAuthority, host, path, rest, emptyPath) ==
    LET special == scheme \in SpecialSchemes
        pathEnd == FirstOf(rest, {"?", "#"}, 1)
        tail == SubSeq(rest, pathEnd, Len(rest))
        segs == SplitOn(SubSeq(rest, 1, pathEnd - 1),
                        IF special THEN {"/", "\\"} ELSE {"/"})
    IN  [valid |-> TRUE, scheme |-> scheme, hasAuthority |-> hasAuthority,
         host |-> host, opaque |-> FALSE, opaquePath |-> "",
         path |-> IF emptyPath THEN <<>> ELSE NormalizeSegments(path, segs),
         query |-> QueryOf(tail, special), fragment |-> FragmentOf(tail)]

ForbiddenHostChars ==
    {" ", "#", "/", ":", "<", ">", "?", "@", "[", "\\", "]", "^", "|", "%"}

\* the authority state and the host parser: rest follows the slashes
ParseAuthority(scheme, rest) ==
    LET special == scheme \in SpecialSchemes
        hostEnd == FirstOf(rest, IF special THEN {"/", "\\", "?", "#"}
                                 ELSE {"/", "?", "#"}, 1)
        hostText == SubSeq(rest, 1, hostEnd - 1)
        after == SubSeq(rest, hostEnd, Len(rest))
        slash == after # "" /\ IsSlash(CharAt(after, 1), special)
    IN  IF (special /\ hostText = "")
           \/ \E i \in 1..Len(hostText) : CharAt(hostText, i) \in ForbiddenHostChars
        THEN InvalidURL
        ELSE PathURL(scheme, TRUE,
                     IF special THEN ToLowerCase(hostText) ELSE hostText,
                     <<>>, IF slash THEN Tail(after) ELSE after,
                     ~special /\ ~slash)

\* the relative state: input has no scheme of its own and base is a URL with
\* a path of segments
ParseRelative(input, base) ==
    LET special == base.scheme \in SpecialSchemes
    IN  IF input = "" THEN [base EXCEPT !.fragment = ""]
        ELSE IF IsSlash(CharAt(input, 1), special)
        THEN IF Len(input) >= 2 /\ IsSlash(CharAt(input, 2), special)
             THEN ParseAuthority(base.scheme,
                                 IF special THEN SkipSlashes(input)
                                 ELSE SubSeq(input, 3, Len(input)))
             ELSE PathURL(base.scheme, base.hasAuthority, base.host, <<>>,
                          Tail(input), FALSE)
        ELSE IF CharAt(input, 1) = "?"
        THEN [base EXCEPT !.query = QueryOf(input, special),
                          !.fragment = FragmentOf(input)]
        ELSE IF CharAt(input, 1) = "#"
        THEN [base EXCEPT !.fragment = FragmentOf(input)]
        ELSE PathURL(base.scheme, base.hasAuthority, base.host,
                     Shorten(base.path), input, FALSE)

\* the scheme state onwards: rest follows the ":" of the scheme
ParseWithScheme(scheme, rest, base) ==
    IF scheme \in SpecialSchemes
    THEN IF base.valid /\ base.scheme = scheme
         THEN ParseRelative(rest, base)
         ELSE ParseAuthority(scheme, SkipSlashes(rest))
    ELSE IF StartsWith(rest, "//")
    THEN ParseAuthority(scheme, SubSeq(rest, 3, Len(rest)))
    ELSE IF StartsWith(rest, "/")
    THEN PathURL(scheme, FALSE, "", <<>>, Tail(rest), FALSE)
    ELSE LET pathEnd == FirstOf(rest, {"?", "#"}, 1)
             tail == SubSeq(rest, pathEnd, Len(rest))
         IN  [valid |-> TRUE, scheme |-> scheme, hasAuthority |-> FALSE,
              host |-> "", opaque |-> TRUE,
              opaquePath |-> SubSeq(rest, 1, pathEnd - 1), path |-> <<>>,
              query |-> QueryOf(tail, FALSE), fragment |-> FragmentOf(tail)]

\* the basic URL parser: base is a URL or InvalidURL for none
ParseURL(raw, base) ==
    LET input == RemoveChars(Trim(raw), {"\t", "\n", "\r"})
        colon == ScanScheme(input, 1)
    IN  IF colon > 0
        THEN ParseWithScheme(ToLowerCase(SubSeq(input, 1, colon - 1)),
                             SubSeq(input, colon + 1, Len(input)), base)
        ELSE IF ~base.valid THEN InvalidURL
        ELSE IF base.opaque
        THEN (IF StartsWith(input, "#")
              THEN [base EXCEPT !.fragment = FragmentOf(input)] ELSE InvalidURL)
        ELSE ParseRelative(input, base)

\* the URL serializer
Href(u) ==
    u.scheme \o ":"
    \o (IF u.opaque THEN u.opaquePath
        ELSE (IF u.hasAuthority THEN "//" \o u.host ELSE "") \o JoinPath(u.path))
    \o u.query \o u.fragment

\* the value thrown by new URL on a string that does not parse
InvalidUrlError == "TypeError: Invalid URL"

\* .href of a parsed URL, or InvalidUrlError when the constructor threw
HrefOf(u) == IF u.valid THEN Href(u) ELSE InvalidUrlError

\* the parse of input against a parsed base; a base that does not parse throws
ParseAgainst(input, base) ==
    IF base.valid THEN ParseURL(input, base) ELSE InvalidURL

\* new URL(input).href, or InvalidUrlError when the constructor throws
NewURL(input) == HrefOf(ParseURL(input, InvalidURL))

\* new URL(input, base).href, or InvalidUrlError when the constructor throws
NewURLWithBase(input, base) ==
    HrefOf(ParseAgainst(input, ParseURL(base, InvalidURL)))

---------------------------------------------------------------------------
(* generateSchemaMarkup.  Its outcome is the document it returns, or the   *)
(* error it throws together with the step that threw.                      *)

Returned(schema) == [error |-> "none", step |-> "return", schema |-> schema]
Thrown(error, step) == [error |-> error, step |-> step, schema |-> NoFields]

NotAFunctionError == "TypeError: push is not a function"

BaseSchema(result, mainSchema) ==
    ("@context" :> Str("https://schema.org")) @@ ("@type" :> Str(mainSchema))
    @@ ("name" :> Str(result.title)) @@ ("url" :> Str(result.url))

\* a description field whatever the description is
WithDescription_always(schema, result) ==
    SetKey(schema, "description", Str(result.description))

WithDescription(schema, result) ==
    IF result.description # ""
    THEN SetKey(schema, "description", Str(result.description))
    ELSE schema

\* the image url as the concatenation of the page url and src
ImageUrl_appendToPage(src, base) ==
    IF StartsWith(src, "http") THEN src ELSE base \o src

\* img.src.startsWith('http') ? img.src : new URL(img.src, url).href
ImageUrl(src, base) ==
    IF StartsWith(src, "http") THEN src ELSE NewURLWithBase(src, base)

\* images.filter(img => img.src)
ImagesWithSrc(result) ==
    SelectSeq(result.scrapedData.images, LAMBDA img : img.src # "")

ImageObject(img, result) ==
    Obj(("@type" :> Str("ImageObject"))
        @@ ("url" :> Str(ImageUrl(img.src, result.url)))
        @@ ("alt" :> Str(IF img.alt \in {Undefined, ""} THEN result.title ELSE img.alt)))

\* images.filter(img => img.src).map(...): an ImageObject whose url is
\* InvalidUrlError stands for the callback throwing
ImageObjects(result) ==
    [i \in DOMAIN ImagesWithSrc(result) |->
        ImageObject(ImagesWithSrc(result)[i], result)]

\* schema.image = objects, unless building objects threw
SetImages(schema, objects) ==
    IF \E i \in DOMAIN objects : objects[i].v["url"].v = InvalidUrlError
    THEN Thrown(InvalidUrlError, "image")
    ELSE Returned(SetKey(schema, "image", Arr(objects)))

\* the `image` step: an outcome
WithImages(schema, result) ==
    IF Len(result.scrapedData.images) = 0 THEN Returned(schema)
    ELSE SetImages(schema, ImageObjects(result))

\* a merge in which the keys already set win over the caller's
WithCustom_keepExtracted(outcome, customProperties) ==
    IF outcome.error # "none" THEN outcome
    ELSE Returned(ObjectAssign(customProperties, outcome.schema))

\* Object.assign(schema, customProperties), when the steps before returned
WithCustom(outcome, customProperties) ==
    IF outcome.error # "none" THEN outcome
    ELSE Returned(ObjectAssign(outcome.schema, customProperties))

\* if (!schema[context]) schema[context] = []
EnsureArray(schema, context) ==
    IF context \notin DOMAIN schema \/ IsFalsy(schema[context])
    THEN SetKey(schema, context, Arr(<<>>))
    ELSE schema

\* the nested object with its property values as given
NestedSchema_asGiven(nested, base) ==
    [k \in DOMAIN nested.properties \cup {"@type"} |->
        IF k \in DOMAIN nested.properties
        THEN nested.properties[k] ELSE Str(nested.type)]

\* { "@type": nested.type, ...nested.properties } with every string value
\* that starts with "/" replaced by its absolute URL; a value of
\* InvalidUrlError stands for new URL throwing
NestedSchema(nested, base) ==
    [k \in DOMAIN nested.properties \cup {"@type"} |->
        LET value == IF k \in DOMAIN nested.properties
                     THEN nested.properties[k] ELSE Str(nested.type)
        IN  IF value.t = "string" /\ StartsWith(value.v, "/")
            THEN Str(NewURLWithBase(value.v, base))
            ELSE value]

\* schema[context].push(nestedSchema), unless building nestedSchema threw
PushNested(schema, context, nestedSchema) ==
    IF \E k \in DOMAIN nestedSchema : nestedSchema[k] = Str(InvalidUrlError)
    THEN Thrown(InvalidUrlError, "nested url")
    ELSE IF schema[context].t # "array"
    THEN Thrown(NotAFunctionError, "nested push")
    ELSE Returned(SetKey(schema, context,
                         Arr(Append(schema[context].v, Obj(nestedSchema)))))

\* one round of nestedSchemas.forEach: an outcome
AddNested(schema, nested, base) ==
    PushNested(EnsureArray(schema, nested.context), nested.context,
               NestedSchema(nested, base))

RECURSIVE WithNested(_, _, _)
\* nestedSchemas.forEach, stopping at the first round that throws
WithNested(outcome, nestedSchemas, base) ==
    IF outcome.error # "none" \/ nestedSchemas = <<>> THEN outcome
    ELSE WithNested(AddNested(outcome.schema, Head(nestedSchemas), base),
                    Tail(nestedSchemas), base)

\* the final pass without any collapse
CollapseSingletons_keepArrays(schema) == schema

\* a final pass that replaces every non-empty array by its first item
CollapseSingletons_firstItem(schema) ==
    [k \in DOMAIN schema |->
        IF schema[k].t = "array" /\ Len(schema[k].v) >= 1
        THEN schema[k].v[1] ELSE schema[k]]

\* the final pass: an array of one item becomes that item
CollapseSingletons(schema) ==
    [k \in DOMAIN schema |->
        IF schema[k].t = "array" /\ Len(schema[k].v) = 1
        THEN schema[k].v[1] ELSE schema[k]]

\* the final pass and the return, when the steps before returned
Collapsed(outcome) ==
    IF outcome.error # "none" THEN outcome
    ELSE Returned(CollapseSingletons(outcome.schema))

generateSchemaMarkup(result, mainSchema, nestedSchemas, customProperties) ==
    Collapsed(
        WithNested(
            WithCustom(
                WithImages(WithDescription(BaseSchema(result, mainSchema), result),
                           result),
                customProperties),
            nestedSchemas, result.url))

---------------------------------------------------------------------------
(* What generateSchemaMarkup writes outside its own document.  The document *)
(* and each nestedSchema are new objects; the arrays under the document's   *)
(* keys are new or the caller's, and push (line 998) writes into whichever  *)
(* array is there.                                                          *)

\* schema.image as the images array of the result itself
ImageArrayOwner_result == "analysisResult"

\* the array filter and map return is a new one
ImageArrayOwner == "schema"

\* for each key under which the document holds an object or array after
\* Object.assign, whose object it is
OwnersAfterCustom(result, customProperties) ==
    [k \in (IF Len(result.scrapedData.images) > 0 THEN {"image"} ELSE {})
            \cup DOMAIN customProperties |->
        IF k \in DOMAIN customProperties THEN "customProperties" ELSE ImageArrayOwner]

\* the owners after `if (!schema[context]) schema[context] = []`
OwnersAfterEnsure(schema, owners, context) ==
    IF context \notin DOMAIN schema \/ IsFalsy(schema[context])
    THEN [k \in DOMAIN owners \cup {context} |->
            IF k = context THEN "schema" ELSE owners[k]]
    ELSE owners

RECURSIVE PushTargets(_, _, _, _)
RECURSIVE PushTargetsAfter(_, _, _, _, _)

\* the owners of the arrays that the rounds of nestedSchemas.forEach push to
PushTargets(outcome, owners, nestedSchemas, base) ==
    IF outcome.error # "none" \/ nestedSchemas = <<>> THEN <<>>
    ELSE PushTargetsAfter(
            AddNested(outcome.schema, Head(nestedSchemas), base),
            OwnersAfterEnsure(outcome.schema, owners, Head(nestedSchemas).context),
            Head(nestedSchemas).context, Tail(nestedSchemas), base)

PushTargetsAfter(next, owners, context, nestedSchemas, base) ==
    (IF next.error = "none" /\ context \in DOMAIN owners
     THEN <<owners[context]>> ELSE <<>>)
    \o PushTargets(next, owners, nestedSchemas, base)

\* the owners of the arrays one call of generateSchemaMarkup pushes to
SynthesisWrites(result, nestedSchemas, customProperties) ==
    PushTargets(
        WithCustom(WithImages(WithDescription(BaseSchema(result, ""), result), result),
                   customProperties),
        OwnersAfterCustom(result, customProperties), nestedSchemas, result.url)

\* the analysis result after a call that made these writes
ResultAfter(result, writes) ==
    LET pushed == SelectSeq(writes, LAMBDA owner : owner = "analysisResult")
    IN  [result EXCEPT !.scrapedData.images =
            @ \o [i \in DOMAIN pushed |-> [src |-> Undefined, alt |-> Undefined]]]

\* Object.assign copies references: the array under a key of customProperties
\* is the array under that key of the document
SharesArray(customProperties, context) ==
    context \in DOMAIN customProperties /\ customProperties[context].t = "array"

RECURSIVE CustomAfterRounds(_, _, _, _)
RECURSIVE CustomAfterRound(_, _, _, _, _)

\* customProperties after the rounds of nestedSchemas.forEach: a push under a
\* key whose array the document shares with customProperties shows in both
CustomAfterRounds(outcome, custom, nestedSchemas, base) ==
    IF \/ \A i \in DOMAIN nestedSchemas : ~SharesArray(custom, nestedSchemas[i].context)
       \/ outcome.error # "none"
    THEN custom
    ELSE CustomAfterRound(AddNested(outcome.schema, Head(nestedSchemas), base), custom,
                          Head(nestedSchemas).context, Tail(nestedSchemas), base)

CustomAfterRound(next, custom, context, nestedSchemas, base) ==
    CustomAfterRounds(next,
                      IF SharesArray(custom, context) /\ next.error = "none"
                      THEN SetKey(custom, context, next.schema[context])
                      ELSE custom,
                      nestedSchemas, base)

\* what the caller's customProperties and nestedSchemas hold after a call of
\* generateSchemaMarkup.  Each nestedSchema is a new object (lines 986-989)
\* and line 994 writes into it, so the entries of nestedSchemas stay as given.
SelectionAfter(result, nestedSchemas, customProperties) ==
    [ nestedSchemas |-> nestedSchemas,
      customProperties |->
          CustomAfterRounds(
              WithCustom(WithImages(WithDescription(BaseSchema(result, ""), result), result),
                         customProperties),
              customProperties, nestedSchemas, result.url) ]

---------------------------------------------------------------------------
(* The inputs of the synthesis runs *)

ImageCatalog ==
    << Elem("img"),
       [Elem("img") EXCEPT !.src = "/img.png", !.alt = "Logo"],
       WithSrc("img", "img.png"),
       WithSrc("img", "https://cdn.test/a.png"),
       WithSrc("img", "httpdocs/b.png"),
       WithSrc("img", "/a/../c.png"),
       WithSrc("img", "data:image/png;base64,AA"),
       WithSrc("img", "//[bad") >>

\* the head of a page: nothing, or a title and a description
Heads ==
    { <<>>,
      << [Elem("title") EXCEPT !.text = " Acme Shop "],
         Meta("description", "Things for sale") >> }

SynthPages ==
    { head \o [i \in 1..Len(s) |-> ImageCatalog[s[i]]] :
        head \in Heads, s \in Increasing(Len(ImageCatalog), MaxImages) }

SynthUrls == {"https://x.test/page", "https://x.test/shop/item?id=1", "not a url"}

Price(amount) == "price" :> Str(amount)

CustomCatalog ==
    { NoFields,
      ("brand" :> Str("Acme")) @@ ("tags" :> Arr(<<Str("new")>>)),
      ("name" :> Str("Custom name")) @@ ("image" :> Str("https://cdn.test/logo.png"))
      @@ ("offers" :> Arr(<<Obj(Price("5")), Obj(Price("6"))>>)) }

NestedCatalog ==
    << [type |-> "Offer", context |-> "offers", properties |-> Price("10")],
       [type |-> "Offer", context |-> "offers",
        properties |-> ("url" :> Str("/buy")) @@ ("seller" :> Obj("name" :> Str("/acme")))],
       [type |-> "Brand", context |-> "name", properties |-> NoFields],
       [type |-> "ImageObject", context |-> "image",
        properties |-> "url" :> Str("/extra.png")],
       [type |-> "Brand", context |-> "brand", properties |-> "logo" :> Str("//[bad")] >>

Selections ==
    { [mainSchema |-> "Product",
       nestedSchemas |-> [i \in 1..Len(s) |-> NestedCatalog[s[i]]],
       customProperties |-> c] :
        s \in Increasing(Len(NestedCatalog), MaxNested), c \in CustomCatalog }

---------------------------------------------------------------------------
(* The analysis of one page *)

Pages ==
    PagesOf(Catalog) \cup PagesOf(TechCatalog) \cup PagesOf(ClassCatalog)
    \cup PagesOf(JsonCatalog) \cup PagesOf(MatchCatalog)
    \cup PagesOf(TextCatalog)

NoAnalysis == [url |-> Undefined]
NoSelection == [mainSchema |-> Undefined]
NoMarkup == Thrown("none", "not called")

\* the response of a tool call: the error text, or the data its text reports
NoResponse ==
    [isError |-> FALSE, text |-> "", analysis |-> NoAnalysis, schema |-> NoFields]

\* the pages the browser has created, each open or closed, each with the url
\* it was navigated to
NoPages == [pages |-> <<>>]

\* the two calls of analyzeWebsite that may be in flight together
Calls == {1, 2}

NoOutcome == [error |-> "none", result |-> NoAnalysis]

\* the analyzer: whether it holds a browser, whether a launch is pending, and
\* how often initialize and close were called
Constructed == [browser |-> "null", launching |-> FALSE, launches |-> 0, closes |-> 0]

\* the analyzer of a server whose run() has completed
Initialized == [browser |-> "held", launching |-> FALSE, launches |-> 1, closes |-> 0]

IdleCall ==
    [pc |-> "idle", url |-> Undefined, handle |-> 0, html |-> <<>>,
     outcome |-> NoOutcome]

\* no request handled and no call made yet
NothingCalled ==
    /\ pc = "idle"
    /\ url = Undefined
    /\ page = <<>>
    /\ analysis = NoAnalysis
    /\ selection = NoSelection
    /\ markup = NoMarkup
    /\ response = NoResponse
    /\ browser = NoPages
    /\ calls = [c \in Calls |-> IdleCall]
    /\ caller = NoSelection

\* the server after run() has completed, before the first request
Init ==
    /\ NothingCalled
    /\ server = "running"
    /\ analyzer = Initialized

\* the server after its constructor, before run()
InitConstructed ==
    /\ NothingCalled
    /\ server = "constructed"
    /\ analyzer = Constructed

\* one call of analyzeWebsite on a rendered page
Analyze ==
    /\ pc = "idle"
    /\ \E p \in Pages, u \in Urls :
          /\ page' = p
          /\ url' = u
          /\ analysis' = analyzeWebsite(p, u)
    /\ pc' = "analyzed"
    /\ UNCHANGED <<selection, markup, response, browser, calls, caller, server, analyzer>>

Next == Analyze

Spec == Init /\ [][Next]_vars

---------------------------------------------------------------------------
(* The tool calls: the handler of CallToolRequestSchema *)

NavigationError == "Navigation timeout of 30000 ms exceeded"

BrowserError == "Browser not initialized. Call initialize() first."

\* the url check of a handler and the call of analyzeWebsite that follows it:
\* the error thrown if any, the number of pages opened, the result
\* a call of analyzeWebsite that does not look at this.browser
ValidateAndAnalyze_noBrowserCheck(u, p, loads) ==
    IF NewURL(u) = InvalidUrlError
    THEN [error |-> "Invalid URL provided", step |-> "validate", opened |-> 0,
          result |-> NoAnalysis]
    ELSE IF ~loads
    THEN [error |-> NavigationError, step |-> "analyze", opened |-> 1,
          result |-> NoAnalysis]
    ELSE [error |-> "none", step |-> "return", opened |-> 1,
          result |-> analyzeWebsite(p, u)]

ValidateAndAnalyze(u, p, loads) ==
    IF NewURL(u) = InvalidUrlError
    THEN [error |-> "Invalid URL provided", step |-> "validate", opened |-> 0,
          result |-> NoAnalysis]
    ELSE IF analyzer.browser = "null"
    THEN [error |-> BrowserError, step |-> "analyze", opened |-> 0,
          result |-> NoAnalysis]
    ELSE IF ~loads
    THEN [error |-> NavigationError, step |-> "analyze", opened |-> 1,
          result |-> NoAnalysis]
    ELSE [error |-> "none", step |-> "return", opened |-> 1,
          result |-> analyzeWebsite(p, u)]

\* the pages a call may find under u: none when the url does not parse or
\* does not load, or when there is no browser to load it
PagesUnder(u, loads) ==
    IF loads /\ analyzer.browser = "held" /\ NewURL(u) # InvalidUrlError
    THEN SynthPages ELSE {<<>>}

\* the browser after a call that opened and closed `opened` pages
AfterCall(b, opened, loaded) ==
    IF opened = 0 THEN b
    ELSE [pages |-> Append(b.pages, [open |-> FALSE, url |-> loaded])]

\* the catch block: isError and the message of the error
ErrorResponse(message) ==
    [isError |-> TRUE, text |-> "Error: " \o message, analysis |-> NoAnalysis,
     schema |-> NoFields]

\* a handler that reports what it has, also after an error
ToolResponse_reportsPartial(outcome, result) ==
    [isError |-> outcome.error # "none",
     text |-> IF outcome.error # "none" THEN "Error: " \o outcome.error ELSE "",
     analysis |-> result, schema |-> outcome.schema]

\* what the handler returns: the report of the result and the document, or
\* the catch block's response when a step threw
ToolResponse(outcome, result) ==
    IF outcome.error # "none" THEN ErrorResponse(outcome.error)
    ELSE [isError |-> FALSE, text |-> "", analysis |-> result,
          schema |-> outcome.schema]

\* the outcome of a handler that only analyses
AnalysisOutcome(a) ==
    IF a.error = "none" THEN NoMarkup ELSE Thrown(a.error, a.step)

\* one call of the analyze_website tool
AnalyzeWebsiteTool ==
    /\ pc = "idle"
    /\ server # "constructed"
    /\ \E u \in SynthUrls, loads \in BOOLEAN :
        \E p \in PagesUnder(u, loads) :
          \E a \in {ValidateAndAnalyze(u, p, loads)} :
              /\ url' = u
              /\ page' = IF a.error = "none" THEN p ELSE <<>>
              /\ analysis' = a.result
              /\ markup' = AnalysisOutcome(a)
              /\ response' = ToolResponse(markup', a.result)
              /\ browser' = AfterCall(browser, a.opened,
                                      IF a.error = "none" THEN u ELSE Undefined)
    /\ pc' = "analyze_website"
    /\ UNCHANGED <<selection, calls, caller, server, analyzer>>

\* one call of the get_schema_recommendations tool
GetSchemaRecommendations ==
    /\ pc = "idle"
    /\ server # "constructed"
    /\ \E u \in SynthUrls, loads \in BOOLEAN :
        \E p \in PagesUnder(u, loads) :
          \E a \in {ValidateAndAnalyze(u, p, loads)} :
              /\ url' = u
              /\ page' = IF a.error = "none" THEN p ELSE <<>>
              /\ analysis' = a.result
              /\ markup' = AnalysisOutcome(a)
              /\ response' = ToolResponse(markup', a.result)
              /\ browser' = AfterCall(browser, a.opened,
                                      IF a.error = "none" THEN u ELSE Undefined)
    /\ pc' = "get_schema_recommendations"
    /\ UNCHANGED <<selection, calls, caller, server, analyzer>>

\* one call of the generate_schema_markup tool: the url is validated, the page
\* analysed, the document generated
GenerateSchemaMarkup ==
    /\ pc = "idle"
    /\ server # "constructed"
    /\ \E u \in SynthUrls, loads \in BOOLEAN :
        \E p \in PagesUnder(u, loads) :
          \E a \in {ValidateAndAnalyze(u, p, loads)} :
              /\ url' = u
              /\ page' = IF a.error = "none" THEN p ELSE <<>>
              /\ browser' = AfterCall(browser, a.opened,
                                      IF a.error = "none" THEN u ELSE Undefined)
              /\ \E sel \in Selections :
                    /\ selection' = sel
                    /\ analysis' = IF a.error # "none" THEN a.result
                                   ELSE ResultAfter(a.result,
                                            SynthesisWrites(a.result, sel.nestedSchemas,
                                                            sel.customProperties))
                    /\ markup' = IF a.error # "none" THEN Thrown(a.error, a.step)
                                 ELSE generateSchemaMarkup(a.result, sel.mainSchema,
                                          sel.nestedSchemas, sel.customProperties)
                    /\ response' = ToolResponse(markup', a.result)
                    /\ caller' = IF a.error # "none"
                                 THEN [nestedSchemas |-> sel.nestedSchemas,
                                       customProperties |-> sel.customProperties]
                                 ELSE SelectionAfter(a.result, sel.nestedSchemas,
                                                     sel.customProperties)
    /\ pc' = "generated"
    /\ UNCHANGED <<calls, server, analyzer>>

NextTools == AnalyzeWebsiteTool \/ GetSchemaRecommendations \/ GenerateSchemaMarkup

SpecTools == Init /\ [][NextTools]_vars

NextSynth == GenerateSchemaMarkup

SpecSynth == Init /\ [][NextSynth]_vars

---------------------------------------------------------------------------
(* Two calls of analyzeWebsite in flight on one analyzer.  A call gives up  *)
(* control at each await: after newPage, after goto, after content, after   *)
(* close; what lies between two awaits runs without interruption.           *)

ConcUrls == {"https://x.test/page", "https://city.gov/services", "https://down.test/"}

\* what the network serves under each url
Web ==
    ("https://x.test/page" :>
        [loads |-> TRUE,
         html |-> << [Elem("title") EXCEPT !.text = "Acme"], WithSrc("img", "/a.png") >>])
    @@ ("https://city.gov/services" :>
        [loads |-> TRUE, html |-> << WithClass("div", "gov"), Elem("footer") >>])
    @@ ("https://down.test/" :> [loads |-> FALSE, html |-> <<>>])

\* a browser that hands out a page that is already open
NewPage_reusesOpenPage(b) ==
    IF \E h \in DOMAIN b.pages : b.pages[h].open
    THEN CHOOSE h \in DOMAIN b.pages : b.pages[h].open
    ELSE Len(b.pages) + 1

\* browser.newPage(): the handle of a new page
NewPage(b) == Len(b.pages) + 1

\* `await this.browser.newPage()`: the page is there, the call goes on
OpenPage(c, u, h) ==
    /\ browser' = [pages |-> IF h > Len(browser.pages)
                             THEN Append(browser.pages,
                                         [open |-> TRUE, url |-> Undefined])
                             ELSE browser.pages]
    /\ calls' = [calls EXCEPT ![c].pc = "goto", ![c].url = u, ![c].handle = h]

\* throw new Error('Browser not initialized. Call initialize() first.')
ThrowNoBrowser(c, u) ==
    /\ browser' = browser
    /\ calls' = [calls EXCEPT ![c].pc = "done", ![c].url = u,
                              ![c].outcome = [error |-> BrowserError,
                                              result |-> NoAnalysis]]

\* a call that asks for a page without looking at this.browser
StartCall_noBrowserCheck(c) ==
    /\ calls[c].pc = "idle"
    /\ \E u \in ConcUrls :
          /\ \A d \in Calls \ {c} : calls[d].url # u
          /\ OpenPage(c, u, NewPage(browser))
    /\ UNCHANGED <<pc, url, page, analysis, selection, markup, response, caller, server,
                   analyzer>>

\* the check for the browser and `await this.browser.newPage()`
StartCall(c) ==
    /\ calls[c].pc = "idle"
    /\ \E u \in ConcUrls :
          /\ \A d \in Calls \ {c} : calls[d].url # u
          /\ IF analyzer.browser = "null" THEN ThrowNoBrowser(c, u)
             ELSE OpenPage(c, u, NewPage(browser))
    /\ UNCHANGED <<pc, url, page, analysis, selection, markup, response, caller, server,
                   analyzer>>

\* `await page.goto(url)`: the page shows the url, or the navigation throws
Goto(c) ==
    /\ calls[c].pc = "goto"
    /\ IF Web[calls[c].url].loads
       THEN /\ browser' = [browser EXCEPT !.pages[calls[c].handle].url = calls[c].url]
            /\ calls' = [calls EXCEPT ![c].pc = "content"]
       ELSE /\ browser' = browser
            /\ calls' = [calls EXCEPT ![c].pc = "close",
                                      ![c].outcome = [error |-> NavigationError,
                                                      result |-> NoAnalysis]]
    /\ UNCHANGED <<pc, url, page, analysis, selection, markup, response, caller, server,
                   analyzer>>

\* `await page.content()` and the extraction, detection and classification
\* that follow it up to the return statement
Content(c) ==
    /\ calls[c].pc = "content"
    /\ \E shown \in {browser.pages[calls[c].handle].url} :
          calls' = [calls EXCEPT
                      ![c].pc = "close",
                      ![c].html = Web[shown].html,
                      ![c].outcome = [error |-> "none",
                                      result |-> analyzeWebsite(Web[shown].html,
                                                                calls[c].url)]]
    /\ UNCHANGED <<pc, url, page, analysis, selection, markup, response, browser, caller,
                   server, analyzer>>

\* page.close() as the last statement of the try block
Close_afterReturnOnly(c) ==
    /\ calls[c].pc = "close"
    /\ browser' = IF calls[c].outcome.error = "none"
                  THEN [browser EXCEPT !.pages[calls[c].handle].open = FALSE]
                  ELSE browser
    /\ calls' = [calls EXCEPT ![c].pc = "done"]
    /\ UNCHANGED <<pc, url, page, analysis, selection, markup, response, caller, server,
                   analyzer>>

\* finally `await page.close()`, then the return or the throw
Close(c) ==
    /\ calls[c].pc = "close"
    /\ browser' = [browser EXCEPT !.pages[calls[c].handle].open = FALSE]
    /\ calls' = [calls EXCEPT ![c].pc = "done"]
    /\ UNCHANGED <<pc, url, page, analysis, selection, markup, response, caller, server,
                   analyzer>>

NextConc == \E c \in Calls : StartCall(c) \/ Goto(c) \/ Content(c) \/ Close(c)

SpecConc == Init /\ [][NextConc]_vars

---------------------------------------------------------------------------
(* The life of the analyzer: initialize, analyzeWebsite and close called on *)
(* an analyzer that starts without a browser.  initialize gives up control  *)
(* while the browser launches, and calls of analyzeWebsite may run during   *)
(* that time and during one another; close is called when no call is in     *)
(* flight and no launch is pending, and runs to its end.                    *)

\* initialize() up to `await puppeteer.launch(...)`
InitializeCalled ==
    /\ ~analyzer.launching
    /\ analyzer.launches < MaxLifecycleCalls
    /\ analyzer' = [analyzer EXCEPT !.launching = TRUE, !.launches = @ + 1]

Initialize ==
    /\ InitializeCalled
    /\ UNCHANGED <<pc, url, page, analysis, selection, markup, response, browser, calls,
                   caller, server>>

\* the launch has resolved: this.browser = the browser; run() goes on to its
\* last line when this is the initialize it awaits
InitializeDone ==
    /\ analyzer.launching
    /\ analyzer' = [analyzer EXCEPT !.launching = FALSE, !.browser = "held"]
    /\ server' = IF server = "initializing" THEN "running" ELSE server
    /\ UNCHANGED <<pc, url, page, analysis, selection, markup, response, browser, calls,
                   caller>>

\* close(): if (this.browser) { await this.browser.close(); this.browser = null }
CloseAnalyzer ==
    /\ \A c \in Calls : calls[c].pc \in {"idle", "done"}
    /\ ~analyzer.launching
    /\ analyzer.closes < MaxLifecycleCalls
    /\ analyzer' = [analyzer EXCEPT !.closes = @ + 1, !.browser = "null"]
    /\ UNCHANGED <<pc, url, page, analysis, selection, markup, response, browser, calls,
                   caller, server>>

NextLife ==
    \/ Initialize
    \/ InitializeDone
    \/ CloseAnalyzer
    \/ \E c \in Calls : StartCall(c) \/ Goto(c) \/ Content(c) \/ Close(c)

SpecLife == InitConstructed /\ [][NextLife]_vars

---------------------------------------------------------------------------
(* The start of the server: run() connects the transport, then initializes *)
(* the analyzer; once the transport is connected a request can be handled  *)
(* whenever run() is waiting.                                              *)

\* `await this.server.connect(transport)`
Connect ==
    /\ server = "constructed"
    /\ server' = "connected"
    /\ UNCHANGED <<pc, url, page, analysis, selection, markup, response, browser, calls,
                   caller, analyzer>>

\* `await this.analyzer.initialize()`, up to the launch
RunInitialize ==
    /\ server = "connected"
    /\ server' = "initializing"
    /\ InitializeCalled
    /\ UNCHANGED <<pc, url, page, analysis, selection, markup, response, browser, calls,
                   caller>>

NextStartup ==
    \/ Connect
    \/ RunInitialize
    \/ InitializeDone
    \/ AnalyzeWebsiteTool
    \/ GetSchemaRecommendations
    \/ GenerateSchemaMarkup

SpecStartup == InitConstructed /\ [][NextStartup]_vars

---------------------------------------------------------------------------
(* Properties of the analysis *)

Analyzed == pc = "analyzed"

\* the priority order of the classification rules
RuleOrder ==
    << "ecommerce", "blog", "news", "portfolio", "social_media", "forum",
       "documentation", "saas", "educational", "entertainment", "government",
       "nonprofit", "landing_page", "corporate" >>

\* the predicate of the rule with a label, on the analysed page
RuleHolds(label) ==
    LET p == page
        e == analysis.detectedElements
        t == analysis.technicalDetails
        u == url
    IN  CASE label = "ecommerce" -> EcommerceRule(p, e, t, u)
          [] label = "blog" -> BlogRule(p, e, t, u)
          [] label = "news" -> NewsRule(p, e, t, u)
          [] label = "portfolio" -> PortfolioRule(p, e, t, u)
          [] label = "social_media" -> SocialMediaRule(p, e, t, u)
          [] label = "forum" -> ForumRule(p, e, t, u)
          [] label = "documentation" -> DocumentationRule(p, e, t, u)
          [] label = "saas" -> SaasRule(p, e, t, u)
          [] label = "educational" -> EducationalRule(p, e, t, u)
          [] label = "entertainment" -> EntertainmentRule(p, e, t, u)
          [] label = "government" -> GovernmentRule(p, e, t, u)
          [] label = "nonprofit" -> NonprofitRule(p, e, t, u)
          [] label = "landing_page" -> LandingPageRule(p, e, t, u)
          [] label = "corporate" -> CorporateRule(p, e, t, u)

\* C1: the result is the label of the first rule, in the priority order, whose
\* predicate holds: when the result is the i-th label, the i-th predicate holds
\* and every predicate before it is false; a page that satisfies both the
\* e-commerce and the blog predicate is classified ecommerce.
C1_FirstMatchingRule ==
    Analyzed =>
        /\ \A i \in 1..Len(RuleOrder) :
              analysis.websiteType = RuleOrder[i] =>
                  /\ RuleHolds(RuleOrder[i])
                  /\ \A j \in 1..(i - 1) : ~RuleHolds(RuleOrder[j])
        /\ (RuleHolds("ecommerce") /\ RuleHolds("blog")
               => analysis.websiteType = "ecommerce")

\* a page on which both the e-commerce and the blog predicate hold
C1_Witness ==
    /\ Analyzed
    /\ RuleHolds("ecommerce") /\ RuleHolds("blog")
    /\ analysis.websiteType = "ecommerce"

\* C2: the result is 'unknown' exactly when none of the fourteen rule
\* predicates holds.
C2_UnknownIffNoRule ==
    Analyzed =>
        (analysis.websiteType = "unknown"
            <=> \A i \in 1..Len(RuleOrder) : ~RuleHolds(RuleOrder[i]))

\* a page with elements on which no rule holds
C2_Witness ==
    /\ Analyzed
    /\ Len(page) > 1
    /\ analysis.detectedElements.hasForms
    /\ analysis.websiteType = "unknown"

\* C3: a page with a form, an element of class "add-to-cart" and a link to
\* checkout.stripe.com is analysed with hasForms, a non-empty
\* ecommerceIndicators list, a Stripe payment method and the type ecommerce.
C3_StripeCheckoutScenario ==
    ( /\ Analyzed
      /\ Tag(page, "form")
      /\ Class(page, "add-to-cart")
      /\ LinkContains(page, "checkout.stripe.com") )
    =>
    ( /\ analysis.detectedElements.hasForms
      /\ analysis.scrapedData.ecommerceIndicators # <<>>
      /\ \E i \in DOMAIN analysis.technicalDetails.paymentMethods :
            analysis.technicalDetails.paymentMethods[i] = "Stripe"
      /\ analysis.websiteType = "ecommerce" )

\* C4: for every page and every url string, a malformed one included, the
\* classifier returns one of the fifteen WebsiteType values and raises nothing.
C4_ClassifierTotal ==
    Analyzed => analysis.websiteType \in WebsiteTypeSchema

\* a classification under a url that is no URL
C4_Witness ==
    /\ Analyzed
    /\ url = "not a url"
    /\ Len(page) > 0
    /\ analysis.websiteType \in WebsiteTypeSchema

\* the four conditions of the social media rule, read off the analysis result
SocialMediaConditions ==
    /\ analysis.detectedElements.hasUserAuth
    /\ analysis.detectedElements.hasComments
    /\ (analysis.detectedElements.hasVideo \/ analysis.detectedElements.hasImages)
    /\ analysis.technicalDetails.socialMedia # <<>>

\* C5: the result is 'social_media' only when user auth, comments, video or
\* images, and a social media indicator are all detected; and when they are and
\* no e-commerce, blog, news or portfolio predicate holds, the result is
\* 'social_media'.
C5_SocialMedia ==
    Analyzed =>
        /\ (analysis.websiteType = "social_media" => SocialMediaConditions)
        /\ ( ( /\ SocialMediaConditions
               /\ ~RuleHolds("ecommerce") /\ ~RuleHolds("blog")
               /\ ~RuleHolds("news") /\ ~RuleHolds("portfolio") )
             => analysis.websiteType = "social_media" )

\* a page classified social_media
C5_Witness ==
    /\ Analyzed
    /\ SocialMediaConditions
    /\ analysis.websiteType = "social_media"

\* the first and the last label of a rule list whose rule matches the page
FirstMatch(labels, Matches(_)) ==
    IF \E i \in DOMAIN labels : Matches(labels[i])
    THEN labels[CHOOSE i \in DOMAIN labels :
                    Matches(labels[i]) /\ \A j \in 1..(i - 1) : ~Matches(labels[j])]
    ELSE Undefined

LastMatch(labels, Matches(_)) ==
    IF \E i \in DOMAIN labels : Matches(labels[i])
    THEN labels[CHOOSE i \in DOMAIN labels :
                    Matches(labels[i])
                    /\ \A j \in (i + 1)..Len(labels) : ~Matches(labels[j])]
    ELSE Undefined

FrameworkOrder == <<"React", "Vue.js", "Angular">>
CmsOrder == <<"WordPress", "Drupal", "Joomla">>

FrameworkMatches(label) ==
    CASE label = "React" -> IsReact(page)
      [] label = "Vue.js" -> IsVue(page)
      [] label = "Angular" -> IsAngular(page)

CmsMatches(label) == IsCms(page, label)

\* C6 as stated: framework is the first matching rule in the order React,
\* Vue.js, Angular, and cms the first matching rule in the order WordPress,
\* Drupal, Joomla.
C6_FirstMatchWins ==
    Analyzed =>
        /\ analysis.technicalDetails.framework
              = FirstMatch(FrameworkOrder, FrameworkMatches)
        /\ analysis.technicalDetails.cms = FirstMatch(CmsOrder, CmsMatches)

\* C6 as amended: framework is the last matching rule in the order React,
\* Vue.js, Angular (a later matching rule overrides an earlier one), and cms
\* the last matching rule in the order WordPress, Drupal, Joomla; each is
\* undefined when no rule matches.
C6_LastMatchWins ==
    Analyzed =>
        /\ analysis.technicalDetails.framework
              = LastMatch(FrameworkOrder, FrameworkMatches)
        /\ analysis.technicalDetails.cms = LastMatch(CmsOrder, CmsMatches)

\* a page matching two framework rules and two CMS rules
C6_Witness ==
    /\ Analyzed
    /\ IsReact(page) /\ IsVue(page) /\ ~IsAngular(page)
    /\ IsCms(page, "WordPress") /\ IsCms(page, "Drupal")
    /\ analysis.technicalDetails.framework = "Vue.js"
    /\ analysis.technicalDetails.cms = "Drupal"

---------------------------------------------------------------------------
(* Claims about the synthesis *)

Generated == pc = "generated"

\* the call reached the end of generateSchemaMarkup
Synthesized == Generated /\ markup.error = "none"

\* neither customProperties nor nestedSchemas name the image property
ImageUntouched ==
    /\ "image" \notin DOMAIN selection.customProperties
    /\ \A i \in DOMAIN selection.nestedSchemas :
          selection.nestedSchemas[i].context # "image"

IsImageObject(value) ==
    /\ value.t = "object"
    /\ "@type" \in DOMAIN value.v
    /\ value.v["@type"] = Str("ImageObject")

IsImageSequence(value, n) ==
    /\ value.t = "array"
    /\ Len(value.v) = n
    /\ \A i \in 1..n : IsImageObject(value.v[i])

ScrapedImages == analysis.scrapedData.images
KeptImages == SelectSeq(ScrapedImages, LAMBDA img : img.src # "")

\* the ImageObjects of the returned document, in order
OutputImages ==
    IF "image" \notin DOMAIN markup.schema THEN <<>>
    ELSE IF markup.schema["image"].t = "array" THEN markup.schema["image"].v
    ELSE <<markup.schema["image"]>>

C8_CollapseByListLength ==
    (Synthesized /\ ImageUntouched) =>
        /\ Len(ScrapedImages) = 1 => IsImageObject(markup.schema["image"])
        /\ Len(ScrapedImages) = 2 => IsImageSequence(markup.schema["image"], 2)

\* C8: the shape of image follows the number n of entries of a non-empty
\* images list that have a non-empty src: a single ImageObject for n = 1, a
\* sequence of n ImageObjects otherwise (the empty sequence for n = 0).
C8_CollapseByKeptImages ==
    (Synthesized /\ ImageUntouched /\ Len(ScrapedImages) > 0) =>
        /\ "image" \in DOMAIN markup.schema
        /\ Len(KeptImages) = 1 => IsImageObject(markup.schema["image"])
        /\ Len(KeptImages) # 1 =>
              IsImageSequence(markup.schema["image"], Len(KeptImages))

C8_Witness ==
    /\ Synthesized /\ ImageUntouched
    /\ Len(ScrapedImages) = 2 /\ Len(KeptImages) = 1
    /\ IsImageObject(markup.schema["image"])

\* C9: an image's src is copied to the output url exactly when it already has
\* a scheme; a src without a scheme is resolved against result.url.
C9_AbsoluteIffHasScheme ==
    (Synthesized /\ ImageUntouched) =>
        /\ Len(OutputImages) = Len(KeptImages)
        /\ \A i \in DOMAIN KeptImages :
              LET src == KeptImages[i].src
                  out == OutputImages[i].v["url"].v
              IN  IF HasScheme(src) THEN out = src
                  ELSE out = NewURLWithBase(src, url) /\ out # src

\* scheme, "://" and host of a url of the form scheme://host/...
OriginOf(u) ==
    LET colon == ScanScheme(u, 1)
    IN  SubSeq(u, 1, FirstOf(u, {"/", "?", "#"}, colon + 3) - 1)

\* src begins with exactly one "/"
RootRelative(src) ==
    /\ StartsWith(src, "/")
    /\ ~StartsWith(src, "//")
    /\ ~StartsWith(src, "/\\")

PlainChars ==
    UpperChars \o LowerChars \o "0123456789" \o "/._-"

\* src has no "." or ".." segment and only characters that a URL's path keeps
PlainPath(src) ==
    /\ \A i \in 1..Len(src) : Includes(PlainChars, CharAt(src, i))
    /\ LET segments == SplitOn(Tail(src), {"/"})
       IN  \A i \in DOMAIN segments : segments[i] \notin {".", ".."}

\* C10 as stated: a src beginning with a single "/" becomes the origin of
\* result.url followed by src.
C10_OriginThenSrc ==
    (Synthesized /\ ImageUntouched) =>
        \A i \in DOMAIN KeptImages :
            RootRelative(KeptImages[i].src) =>
                OutputImages[i].v["url"].v = OriginOf(url) \o KeptImages[i].src

\* C10: with result.url = "https://x.test/page" the src "/img.png" becomes
\* "https://x.test/img.png"; a src beginning with a single "/" that has no
\* "." or ".." segment and only unescaped path characters becomes the origin
\* of result.url followed by src, the path and query of result.url discarded.
C10_OriginThenPlainSrc ==
    (Synthesized /\ ImageUntouched) =>
        \A i \in DOMAIN KeptImages :
            LET src == KeptImages[i].src
                out == OutputImages[i].v["url"].v
            IN  /\ (url = "https://x.test/page" /\ src = "/img.png")
                        => out = "https://x.test/img.png"
                /\ (RootRelative(src) /\ PlainPath(src))
                        => out = OriginOf(url) \o src

C10_Witness ==
    /\ Synthesized /\ ImageUntouched
    /\ url = "https://x.test/shop/item?id=1"
    /\ \E i \in DOMAIN KeptImages :
          /\ KeptImages[i].src = "/img.png"
          /\ OutputImages[i].v["url"].v = "https://x.test/img.png"

\* the contexts named by the entries of nestedSchemas
NestedContexts ==
    {selection.nestedSchemas[i].context : i \in DOMAIN selection.nestedSchemas}

\* the document after the base fields, the description and the images
StepsOneToThree ==
    WithImages(WithDescription(BaseSchema(analysis, selection.mainSchema), analysis),
               analysis).schema

\* a value after the singleton collapse
CollapsedValue(value) ==
    IF value.t = "array" /\ Len(value.v) = 1 THEN value.v[1] ELSE value

\* the object the nested entry asks for: its type, its properties, every
\* string property that begins with "/" made absolute against the page url
ExpectedNested(nested) ==
    Obj([k \in DOMAIN nested.properties \cup {"@type"} |->
            IF k \notin DOMAIN nested.properties THEN Str(nested.type)
            ELSE IF nested.properties[k].t = "string"
                    /\ StartsWith(nested.properties[k].v, "/")
            THEN Str(NewURLWithBase(nested.properties[k].v, url))
            ELSE nested.properties[k]])

\* the expected objects of the entries with context c, in nestedSchemas order
ExpectedUnder(c) ==
    LET entries == SelectSeq(selection.nestedSchemas, LAMBDA n : n.context = c)
    IN  [i \in DOMAIN entries |-> ExpectedNested(entries[i])]

\* C11: for every context c that nothing else set in the document, the field
\* c of the returned document holds the objects built from the entries with
\* context c, in nestedSchemas order, root-relative string properties made
\* absolute: the object itself when there is one entry, the sequence when
\* there are more.
C11_NestedSchemas ==
    Synthesized =>
        \A c \in NestedContexts :
            (c \notin DOMAIN StepsOneToThree /\ c \notin DOMAIN selection.customProperties)
                => /\ c \in DOMAIN markup.schema
                   /\ \E expected \in {ExpectedUnder(c)} :
                         markup.schema[c] = IF Len(expected) = 1 THEN expected[1]
                                            ELSE Arr(expected)

C11_Witness ==
    /\ Synthesized
    /\ "offers" \notin DOMAIN selection.customProperties
    /\ Len(ExpectedUnder("offers")) = 2
    /\ markup.schema["offers"].t = "array"
    /\ markup.schema["offers"].v[1] = Obj(("@type" :> Str("Offer")) @@ Price("10"))
    /\ markup.schema["offers"].v[2].v["url"] = Str("https://x.test/buy")

C13_BaseDocument ==
    (Synthesized /\ selection.customProperties = NoFields
                 /\ selection.nestedSchemas = <<>>) =>
        /\ {"@context", "@type", "name", "url"} \subseteq DOMAIN markup.schema
        /\ markup.schema["@context"] = Str("https://schema.org")
        /\ markup.schema["@type"] = Str(selection.mainSchema)
        /\ markup.schema["name"] = Str(analysis.title)
        /\ markup.schema["url"] = Str(analysis.url)
        /\ "description" \in DOMAIN markup.schema <=> analysis.description # ""
        /\ analysis.description # ""
              => markup.schema["description"] = Str(analysis.description)

C13_Witness ==
    /\ Synthesized
    /\ selection.customProperties = NoFields /\ selection.nestedSchemas = <<>>
    /\ analysis.description = "Things for sale"
    /\ markup.schema["description"] = Str("Things for sale")
    /\ markup.schema["name"] = Str("Acme Shop")

\* the document as it is when the final pass begins
BeforeFinalPass ==
    WithNested(WithCustom(Returned(StepsOneToThree), selection.customProperties),
               selection.nestedSchemas, url).schema

\* C14: the final pass replaces every top-level sequence of exactly one
\* element by that element and leaves every other top-level field, empty
\* sequences and sequences of two or more included, as it was.
C14_FinalPass ==
    Synthesized =>
        \E document \in {BeforeFinalPass} :
            /\ DOMAIN markup.schema = DOMAIN document
            /\ \A k \in DOMAIN document :
                  LET before == document[k]
                  IN  IF before.t = "array" /\ Len(before.v) = 1
                      THEN markup.schema[k] = before.v[1]
                      ELSE markup.schema[k] = before

C14_Witness ==
    /\ Synthesized
    /\ \E document \in {BeforeFinalPass} :
          /\ {"tags", "image", "offers"} \subseteq DOMAIN document
          /\ document["offers"].t = "array"
          /\ document["tags"] = Arr(<<Str("new")>>)
          /\ markup.schema["tags"] = Str("new")
          /\ document["image"] = Arr(<<>>)
          /\ markup.schema["image"] = Arr(<<>>)
          /\ Len(document["offers"].v) = 2
          /\ markup.schema["offers"] = document["offers"]

---------------------------------------------------------------------------
(* Claims about the tool calls *)

ToolCalled == pc \in {"analyze_website", "get_schema_recommendations", "generated"}

\* a step of the analysis or of the synthesis raised
Raised == ToolCalled /\ markup.error # "none"

\* C15: a tool call whose url does not parse gets an error response and opens
\* no page; whenever a step of the analysis or of the synthesis raises, the
\* response is an error response that carries no analysis result and no
\* document.
C15_AbortsAsAUnit ==
    ToolCalled =>
        /\ NewURL(url) = InvalidUrlError
              => response.isError /\ Len(browser.pages) = 0 /\ page = <<>>
        /\ Raised => /\ response.isError
                     /\ response.analysis = NoAnalysis
                     /\ response.schema = NoFields

C15_Witness ==
    /\ pc = "generated"
    /\ analysis # NoAnalysis
    /\ markup.error = NotAFunctionError
    /\ response = ErrorResponse(NotAFunctionError)

---------------------------------------------------------------------------
(* Claims about calls in flight together *)

InFlight(c) == calls[c].pc \in {"goto", "content", "close"}

\* what a call of analyzeWebsite on u returns when no other call runs
AloneOutcome(u) ==
    IF Web[u].loads
    THEN [error |-> "none", result |-> analyzeWebsite(Web[u].html, u)]
    ELSE [error |-> NavigationError, result |-> NoAnalysis]

\* C16: two calls of analyzeWebsite on different urls, however interleaved,
\* each end with the outcome they have when run alone; each has a page of its
\* own, which is open exactly while its call is in flight and shows nothing
\* but that call's url.
C16_Independent ==
    /\ \A c \in Calls :
          calls[c].pc = "done" => calls[c].outcome = AloneOutcome(calls[c].url)
    /\ \A c, d \in Calls :
          (c # d /\ calls[c].pc # "idle" /\ calls[d].pc # "idle")
              => calls[c].handle # calls[d].handle
    /\ \A h \in DOMAIN browser.pages :
          browser.pages[h].open
              <=> \E c \in Calls : InFlight(c) /\ calls[c].handle = h
    /\ \A c \in Calls :
          calls[c].pc # "idle"
              => browser.pages[calls[c].handle].url \in {Undefined, calls[c].url}

C16_Witness ==
    /\ Len(browser.pages) = 2
    /\ calls[1].pc = "done" /\ calls[1].handle = 2
    /\ calls[2].pc = "close" /\ calls[2].handle = 1
    /\ calls[1].outcome.error = "none" /\ calls[2].outcome.error = "none"
    /\ calls[1].outcome.result.title = "Acme"
    /\ calls[2].outcome.result.websiteType = "government"
    /\ browser.pages[1].open /\ ~browser.pages[2].open

---------------------------------------------------------------------------
(* Claims about what the synthesis leaves alone *)

\* generateSchemaMarkup was called, and returned or raised
SynthesisCalled == Generated /\ markup.step \notin {"validate", "analyze"}

\* C17: after generateSchemaMarkup has returned or raised, the analysis result
\* it was given equals what analyzeWebsite had returned, the images list and
\* its entries included.
C17_ResultUnchanged ==
    SynthesisCalled => analysis = analyzeWebsite(page, url)

C17_Witness ==
    /\ Synthesized
    /\ Len(KeptImages) = 1
    /\ "image" \notin DOMAIN selection.customProperties
    /\ "image" \in NestedContexts
    /\ markup.schema["image"].t = "array"
    /\ Len(markup.schema["image"].v) = 2
    /\ Len(analysis.scrapedData.images) = 1

---------------------------------------------------------------------------
(* Claims about the extracted classes and the detected elements *)

ExtractedClasses == analysis.scrapedData.allClasses

\* the class tokens of one attribute value: its pieces between spaces,
\* without surrounding whitespace, the empty ones left out
TokensOf(value) ==
    LET pieces == SplitOn(value, {" "})
    IN  SelectSeq([i \in DOMAIN pieces |-> Trim(pieces[i])], LAMBDA t : t # "")

RECURSIVE ClassTokens(_)
\* the class tokens of a page in document order, repetitions included
ClassTokens(p) ==
    IF p = <<>> THEN <<>> ELSE TokensOf(Head(p).class) \o ClassTokens(Tail(p))

\* the position of the first occurrence of t in seq
FirstIndex(seq, t) == CHOOSE i \in DOMAIN seq : seq[i] = t /\ \A j \in 1..(i - 1) : seq[j] # t

\* C18: allClasses holds every class token of the page exactly once, in the
\* order of first occurrence, and no empty entry; the classes "a b a" and
\* "b c" of two elements give [a, b, c].
C18_DedupFirstSeen ==
    Analyzed =>
        LET tokens == ClassTokens(page)
        IN  /\ \A i \in DOMAIN ExtractedClasses : ExtractedClasses[i] # ""
            /\ \A i, j \in DOMAIN ExtractedClasses :
                  i < j => ExtractedClasses[i] # ExtractedClasses[j]
            /\ {ExtractedClasses[i] : i \in DOMAIN ExtractedClasses}
                  = {tokens[i] : i \in DOMAIN tokens}
            /\ \A i, j \in DOMAIN ExtractedClasses :
                  i < j => FirstIndex(tokens, ExtractedClasses[i])
                              < FirstIndex(tokens, ExtractedClasses[j])
            /\ page = <<WithClass("div", "a b a"), WithClass("div", "b c")>>
                  => ExtractedClasses = <<"a", "b", "c">>

C18_Witness ==
    /\ Analyzed
    /\ page = <<WithClass("div", "a b a"), WithClass("div", "b c")>>
    /\ ExtractedClasses = <<"a", "b", "c">>

HasWhitespace(s) == \E i \in 1..Len(s) : IsWhitespace(CharAt(s, i))

\* C19: class names separated by any whitespace character are separate
\* entries of allClasses, and no entry of allClasses contains a whitespace
\* character.
C19_SplitOnWhitespace ==
    Analyzed =>
        /\ \A i \in DOMAIN ExtractedClasses : ~HasWhitespace(ExtractedClasses[i])
        /\ \A e \in DOMAIN page :
              \A k \in DOMAIN SplitOnWhitespace(page[e].class) :
                  LET name == SplitOnWhitespace(page[e].class)[k]
                  IN  name # "" => \E i \in DOMAIN ExtractedClasses :
                                       ExtractedClasses[i] = name

\* C20: hasNavigation is true exactly when the page has a nav element or an
\* element whose class attribute contains "nav" as a substring.
C20_NavigationBySubstring ==
    Analyzed =>
        (analysis.detectedElements.hasNavigation
            <=> \E e \in DOMAIN page :
                    page[e].tag = "nav" \/ Includes(page[e].class, "nav"))

---------------------------------------------------------------------------
(* Claims about the structured data and the title *)

\* the JSON-LD blocks of the analysed page that are not empty and parse
ParsingBlocks ==
    SelectSeq(page, LAMBDA e : IsJsonLd(e) /\ e.html # "" /\ JSONParse(e.html).ok)

\* the analysed page without its JSON-LD blocks
WithoutJsonLd == SelectSeq(page, LAMBDA e : ~IsJsonLd(e))

\* C21: structuredData holds the parsed value of exactly the non-empty JSON-LD
\* blocks that parse as JSON, in document order; a block that does not parse
\* is dropped without an error, and every other field of the snapshot is what
\* it is for the page without the JSON-LD blocks.
C21_MalformedBlocksSkipped ==
    Analyzed =>
        /\ \E blocks \in {ParsingBlocks} :
              analysis.scrapedData.structuredData
                  = [i \in 1..Len(blocks) |-> JSONParse(blocks[i].html).value]
        /\ \E other \in {collectScrapedData(WithoutJsonLd)} :
              \A f \in DOMAIN other \ {"structuredData"} :
                  analysis.scrapedData[f] = other[f]

C21_Witness ==
    /\ Analyzed
    /\ page = << JsonCatalog[2], JsonCatalog[4], JsonCatalog[10] >>
    /\ analysis.scrapedData.structuredData
           = << Arr(<< Num("1"),
                       Obj(("a" :> Literal("null")) @@ ("b" :> Str("x\ny"))) >>) >>
    /\ analysis.scrapedData.title = "Shop"

\* the trimmed texts of the title elements of the analysed page that are not
\* empty, in document order
TitleTexts ==
    SelectSeq([i \in DOMAIN page |-> IF page[i].tag = "title" THEN Trim(page[i].text) ELSE ""],
              LAMBDA t : t # "")

\* C22: the title is the text of the first title element with non-empty text,
\* of that one only when the page has several, and "Untitled" when no title
\* element has non-empty text.
C22_FirstNonEmptyTitle ==
    Analyzed =>
        /\ analysis.title = IF TitleTexts = <<>> THEN "Untitled" ELSE TitleTexts[1]
        /\ analysis.scrapedData.title = analysis.title

---------------------------------------------------------------------------
(* Claims about the technical details *)

\* how often a list holds an entry
Count(list, entry) == Cardinality({i \in DOMAIN list : list[i] = entry})

OneIf(cond) == IF cond THEN 1 ELSE 0

ScriptsWith(sub) == {i \in DOMAIN page : page[i].tag = "script" /\ Includes(page[i].html, sub)}

LinksTo(site) == {i \in DOMAIN page : page[i].tag = "a" /\ Includes(page[i].href, site)}

SocialNetworks ==
    << <<"Facebook", "facebook.com">>, <<"Twitter", "twitter.com">>,
       <<"LinkedIn", "linkedin.com">>, <<"Instagram", "instagram.com">>,
       <<"YouTube", "youtube.com">> >>

\* analytics holds one entry per script and indicator the script matches
AnalyticsPerScript ==
    LET analytics == analysis.technicalDetails.analytics
    IN  /\ Count(analytics, "Google Analytics")
              = Cardinality(ScriptsWith("google-analytics") \cup ScriptsWith("gtag"))
        /\ Count(analytics, "Facebook Pixel")
              = Cardinality(ScriptsWith("facebook") \cap ScriptsWith("pixel"))
        /\ Count(analytics, "Mixpanel") = Cardinality(ScriptsWith("mixpanel"))
        /\ \A i \in DOMAIN analytics :
              analytics[i] \in {"Google Analytics", "Facebook Pixel", "Mixpanel"}

\* paymentMethods holds one entry per payment rule that matches
PaymentsPerRule ==
    LET methods == analysis.technicalDetails.paymentMethods
    IN  /\ Count(methods, "Stripe")
              = OneIf(TagSrcContains(page, "img", "stripe")) + OneIf(ClassContains(page, "stripe"))
        /\ Count(methods, "PayPal")
              = OneIf(TagSrcContains(page, "img", "paypal")) + OneIf(ClassContains(page, "paypal"))
        /\ Count(methods, "Square") = OneIf(TagSrcContains(page, "img", "square"))
        /\ \A i \in DOMAIN methods : methods[i] \in {"Stripe", "PayPal", "Square"}

\* C23 as stated: every independent match appends, so each of the three lists
\* can hold duplicates: analytics one entry per matching script, paymentMethods
\* one per matching rule, socialMedia one per matching link.
C23_EveryMatchAppends ==
    Analyzed =>
        /\ AnalyticsPerScript
        /\ PaymentsPerRule
        /\ \A n \in DOMAIN SocialNetworks :
              Count(analysis.technicalDetails.socialMedia, SocialNetworks[n][1])
                  = Cardinality(LinksTo(SocialNetworks[n][2]))

\* C23, amended: analytics holds one entry per script and indicator, and
\* paymentMethods one per matching rule, so these two can hold duplicates;
\* socialMedia holds each network once when at least one link points to it,
\* however many links do, and never holds a duplicate.
C23_DuplicatesButNotSocial ==
    Analyzed =>
        /\ AnalyticsPerScript
        /\ PaymentsPerRule
        /\ \A n \in DOMAIN SocialNetworks :
              Count(analysis.technicalDetails.socialMedia, SocialNetworks[n][1])
                  = OneIf(LinksTo(SocialNetworks[n][2]) # {})

C23_Witness ==
    /\ Analyzed
    /\ Cardinality(LinksTo("facebook.com")) = 2
    /\ analysis.technicalDetails.socialMedia = <<"Facebook">>
    /\ analysis.technicalDetails.paymentMethods = <<"Stripe", "Stripe">>

---------------------------------------------------------------------------
(* Claims about the keyword indicators *)

\* the text of the body of the analysed page, lower-cased
LowerText == ToLowerCase(ConcatTexts(SelectSeq(page, LAMBDA e : e.tag \notin HeadTags)))

\* the whitespace-separated tokens of a text, each as the positions of its
\* first and last character
TokenSpans(text) ==
    { span \in (1..Len(text)) \X (1..Len(text)) :
        /\ span[1] <= span[2]
        /\ \A i \in span[1]..span[2] : ~IsWhitespace(CharAt(text, i))
        /\ (span[1] = 1 \/ IsWhitespace(CharAt(text, span[1] - 1)))
        /\ (span[2] = Len(text) \/ IsWhitespace(CharAt(text, span[2] + 1))) }

\* the list holds exactly the tokens of the text that contain a keyword, in
\* text order, a repeated token repeated
KeptTokens(list, text, keywords) ==
    LET kept == { span \in TokenSpans(text) :
                    \E k \in keywords : Includes(SubSeq(text, span[1], span[2]), k) }
    IN  /\ Len(list) = Cardinality(kept)
        /\ \A span \in kept :
              list[1 + Cardinality({before \in kept : before[1] < span[1]})]
                  = SubSeq(text, span[1], span[2])

\* C24: each of the three indicator lists consists of exactly the
\* whitespace-separated tokens of the lower-cased text that contain a keyword
\* of its category as a substring, in text order, repeats repeated.
C24_SubstringFilteredTokens ==
    Analyzed =>
        \E text \in {LowerText} :
            /\ KeptTokens(analysis.scrapedData.paymentIndicators, text, PaymentKeywords)
            /\ KeptTokens(analysis.scrapedData.ecommerceIndicators, text, EcommerceKeywords)
            /\ KeptTokens(analysis.scrapedData.contentIndicators, text, ContentKeywords)

C24_Witness ==
    /\ Analyzed
    /\ page = << TextCatalog[1], TextCatalog[2], TextCatalog[6] >>
    /\ analysis.scrapedData.ecommerceIndicators = <<"shopping", "shipping", "shop", "shop">>
    /\ analysis.scrapedData.paymentIndicators = <<"cart:", "buy">>
    /\ analysis.scrapedData.contentIndicators = <<"blog", "posts", "faq">>

---------------------------------------------------------------------------
(* Claims about the forum rule *)

BeforeForum == {"ecommerce", "blog", "news", "portfolio", "social_media"}

NoEarlierRule == \A label \in BeforeForum : ~RuleHolds(label)

\* the forum predicate with the grouping the claim gives
ForumGrouping ==
    \/ /\ analysis.detectedElements.hasComments
       /\ analysis.detectedElements.hasUserAuth
       /\ Class(page, "thread")
    \/ ClassContains(page, "thread")
    \/ Class(page, "topic")
    \/ ClassContains(page, "topic")

\* C25: the page is classified forum exactly when no earlier rule matches and
\* (hasComments and hasUserAuth and a .thread element) or a class containing
\* "thread" or a .topic element or a class containing "topic" holds; so a class
\* containing "thread" or "topic" suffices, comments and user authentication
\* or not.
C25_ForumGrouping ==
    Analyzed =>
        /\ (analysis.websiteType = "forum") <=> (NoEarlierRule /\ ForumGrouping)
        /\ (NoEarlierRule /\ (ClassContains(page, "thread") \/ ClassContains(page, "topic")))
              => analysis.websiteType = "forum"

C25_Witness ==
    /\ Analyzed
    /\ ClassContains(page, "topic")
    /\ ~analysis.detectedElements.hasComments
    /\ ~analysis.detectedElements.hasUserAuth
    /\ analysis.websiteType = "forum"

---------------------------------------------------------------------------
(* Claims about the caller's selection *)

\* C26: after generateSchemaMarkup has returned, customProperties and every
\* entry of nestedSchemas equal what the caller passed, also when
\* customProperties holds an array under a key used as a nested context.
C26_SelectionUnchanged ==
    Synthesized =>
        /\ caller.customProperties = selection.customProperties
        /\ caller.nestedSchemas = selection.nestedSchemas

---------------------------------------------------------------------------
(* Claims about the pages and the life of the analyzer *)

OpenPages == {h \in DOMAIN browser.pages : browser.pages[h].open}

\* C27: a page opened by a call of analyzeWebsite is closed when the call
\* completes, after a success and after a failure alike: the open pages are
\* the pages of the calls in flight, and none is open when every call made has
\* completed.
C27_PagesClosed ==
    /\ OpenPages = {calls[c].handle : c \in {d \in Calls : InFlight(d)}}
    /\ (\A c \in Calls : calls[c].pc \in {"idle", "done"}) => OpenPages = {}

C27_Witness ==
    /\ \A c \in Calls : calls[c].pc = "done"
    /\ \E c \in Calls : calls[c].outcome.error = NavigationError
    /\ \E c \in Calls : calls[c].outcome.error = "none"
    /\ Len(browser.pages) = 2
    /\ OpenPages = {}

\* a call starts: it leaves the idle position
Starts(c) == calls[c].pc = "idle" /\ calls'[c].pc # "idle"

\* C28: a call of analyzeWebsite opens a page only when the analyzer holds a
\* browser; without one it raises 'Browser not initialized', opens no page and
\* leaves the analyzer as it is.  The analyzer comes to hold a browser only by
\* an initialize that completes and loses it only by close; close leaves the
\* analyzer without a browser, and a close without a browser changes nothing.
C28_Lifecycle ==
    [][ /\ Len(browser'.pages) > Len(browser.pages) => analyzer.browser = "held"
        /\ \A c \in Calls :
              (Starts(c) /\ analyzer.browser = "null")
                  => /\ calls'[c].pc = "done"
                     /\ calls'[c].outcome.error = BrowserError
                     /\ calls'[c].handle = 0
                     /\ browser' = browser
                     /\ analyzer' = analyzer
        /\ (analyzer.browser = "null" /\ analyzer'.browser = "held")
              => analyzer.launching /\ ~analyzer'.launching
        /\ (analyzer.browser = "held" /\ analyzer'.browser = "null")
              => analyzer'.closes = analyzer.closes + 1
        /\ analyzer'.closes # analyzer.closes
              => /\ analyzer'.browser = "null"
                 /\ analyzer.browser = "null"
                       => /\ [analyzer' EXCEPT !.closes = analyzer.closes] = analyzer
                          /\ browser' = browser /\ calls' = calls
      ]_vars

C28_Witness ==
    /\ calls[1].pc = "done" /\ calls[1].outcome.error = "none"
    /\ calls[2].pc = "done" /\ calls[2].outcome.error = BrowserError
    /\ calls[2].handle = 0
    /\ Len(browser.pages) = 1
    /\ analyzer.browser = "null"
    /\ analyzer.closes = 2

---------------------------------------------------------------------------
(* Claims about the start of the server *)

\* a request is handled: the handler runs from its start to its response
Handled == pc = "idle" /\ pc' # "idle"

\* the transport is connected and initialize() has not completed
BeforeInitialized == server \in {"connected", "initializing"}

NotInitializedText == "Error: " \o BrowserError

\* a call handled once run() has completed is analysed: its response is not
\* the missing-browser error, and carries the analysis unless a step threw
AnalysedNormally ==
    /\ response'.text # NotInitializedText
    /\ markup'.error = "none"
          => /\ ~response'.isError
             /\ response'.analysis = analyzeWebsite(page', url')

\* C29 as stated: run() connects before initialize() completes, and every call
\* of a URL-taking analysis tool handled in between is answered with the
\* 'Browser not initialized' error response and opens no page; a call handled
\* after initialization is analysed normally.
C29_NotInitializedError ==
    /\ [](BeforeInitialized => analyzer.browser = "null")
    /\ [][ /\ (Handled /\ BeforeInitialized)
                => /\ response'.isError
                   /\ response'.text = NotInitializedText
                   /\ response'.analysis = NoAnalysis
                   /\ browser' = browser
           /\ (Handled /\ server = "running") => AnalysedNormally
         ]_vars

\* C29, amended: a call handled between connect and the end of initialize() is
\* answered with an error response and opens no page; the error is 'Browser
\* not initialized' when the url parses and 'Invalid URL provided' when it
\* does not, the url being checked first.
C29_ErrorBeforeInitialized ==
    /\ [](BeforeInitialized => analyzer.browser = "null")
    /\ [][ /\ (Handled /\ BeforeInitialized)
                => /\ response'.isError
                   /\ response'.text = IF NewURL(url') = InvalidUrlError
                                       THEN "Error: Invalid URL provided"
                                       ELSE NotInitializedText
                   /\ response'.analysis = NoAnalysis
                   /\ browser' = browser
           /\ (Handled /\ server = "running") => AnalysedNormally
         ]_vars

C29_Witness ==
    /\ pc # "idle"
    /\ BeforeInitialized
    /\ NewURL(url) # InvalidUrlError
    /\ response.isError
    /\ response.text = NotInitializedText
    /\ browser.pages = <<>>

MultiWordKeywords == {"add to cart", "buy now"}

IndicatorLists ==
    { analysis.scrapedData.paymentIndicators, analysis.scrapedData.ecommerceIndicators,
      analysis.scrapedData.contentIndicators }

\* C30: every entry of the three indicator lists is a non-empty lower-case
\* token without whitespace, so the keywords "add to cart" and "buy now" match
\* no entry, and ecommerceIndicators is what it would be without them in the
\* keyword set.
C30_SingleWordTokens ==
    Analyzed =>
        /\ \A list \in IndicatorLists : \A i \in DOMAIN list :
              /\ list[i] # ""
              /\ ToLowerCase(list[i]) = list[i]
              /\ ~HasWhitespace(list[i])
              /\ \A k \in MultiWordKeywords : ~Includes(list[i], k)
        /\ analysis.scrapedData.ecommerceIndicators
              = Indicators(analysis.scrapedData.allTextContent,
                           EcommerceKeywords \ MultiWordKeywords)

C30_Witness ==
    /\ Analyzed
    /\ page = << TextCatalog[3], TextCatalog[5] >>
    /\ analysis.scrapedData.allTextContent = "add to cart Buy now"
    /\ analysis.scrapedData.ecommerceIndicators = <<>>
    /\ analysis.scrapedData.paymentIndicators = <<"cart", "buy">>

=============================================================================
